---- MODULE Spec2Model ----
(***************************************************************************)
(* A model of the agent runtime and the workspace consistency layer of    *)
(* Novel-IDE (src-tauri/src/agent_system.rs, src-tauri/src/commands.rs).  *)
(*                                                                         *)
(* Rust strings are modelled as sequences of one-character strings, so    *)
(* that trim, starts_with, ends_with, replace, to_lowercase and the path  *)
(* component parser are computed, not assumed.  Paths follow the Unix     *)
(* rules of std::path ('/' is the only separator, a leading '/' is the    *)
(* root); the file system is case-sensitive and holds no symbolic links.  *)
(***************************************************************************)
EXTENDS Integers, Sequences, FiniteSets, TLC

VARIABLES
  relative_path,   \* SpecPath: the argument of validate_relative_path
  validated,       \* SpecPath: what validate_relative_path returned
  existing_form,   \* SpecOutline: the outline file is blank, unparsable or JSON
  existing_events, \* SpecOutline: the events of the outline file, when it is JSON
  new_form,        \* SpecOutline: the incoming text is unparsable or JSON
  new_events,      \* SpecOutline: the events of the incoming text, when it is JSON
  outline_result,  \* SpecOutline: what validate_outline returned
  fs,              \* the file system: location -> node
  ncalls,          \* the calls made so far
  last_call,       \* SpecFs: the last tool call and what it returned
  index_log,       \* SpecIndex: the last two update_concept_index calls
  pc,              \* SpecReact: where run_react is: "idle", "loop" or "done"
  step,            \* SpecReact: run_react's step
  messages,        \* SpecReact: run_react's messages
  result,          \* SpecReact: what run_react returned
  memory,          \* SpecReact: MemoryStore.data.long_term
  model_calls,     \* SpecReact: the call_model invocations of the run
  tool_runs,       \* SpecReact: the tool calls the run completed
  last_model,      \* SpecReact: what the last call_model returned
  model_text,      \* SpecParse: the argument of parse_tool_call
  parsed_call,     \* SpecParse: what parse_tool_call returned
  registry,        \* SpecRegistry: ToolRegistry.tools, name -> handler
  registry_log,    \* SpecRegistry: the last operation and what it returned
  writers,         \* SpecIndexRace: the update_concept_index calls in progress
  runtimes,        \* SpecMemoryRace: the AgentRuntime instances and their stores
  emitted,         \* SpecStream: the events emitted on the window
  stream           \* SpecStream: where the task of chat_generate_stream is

varsPath == <<relative_path, validated>>
varsOutline == <<existing_form, existing_events, new_form, new_events, outline_result>>
varsFs == <<fs, ncalls, last_call>>
varsIndex == <<index_log>>
varsReact == <<pc, step, messages, result, memory, model_calls, tool_runs, last_model>>
varsParse == <<model_text, parsed_call>>
varsRegistry == <<registry, registry_log>>
varsRace == <<writers, runtimes>>
varsStream == <<emitted, stream>>
vars == <<varsPath, varsOutline, varsFs, varsIndex, varsReact, varsParse, varsRegistry,
          varsRace, varsStream>>

(***************************************************************************)
(* Strings                                                                 *)
(***************************************************************************)
\* char::is_whitespace, on the characters the model uses
IsSpace(c) == c \in {" ", "\t", "\n", "\r"}

\* str::starts_with
StartsWith(s, p) == Len(s) >= Len(p) /\ SubSeq(s, 1, Len(p)) = p

\* str::ends_with
EndsWith(s, p) == Len(s) >= Len(p) /\ SubSeq(s, Len(s) - Len(p) + 1, Len(s)) = p

RECURSIVE TrimStart(_)
\* str::trim_start
TrimStart(s) == IF s # <<>> /\ IsSpace(s[1]) THEN TrimStart(Tail(s)) ELSE s

RECURSIVE TrimEnd(_)
\* str::trim_end
TrimEnd(s) ==
  IF s # <<>> /\ IsSpace(s[Len(s)]) THEN TrimEnd(SubSeq(s, 1, Len(s) - 1)) ELSE s

\* str::trim
Trim(s) == TrimEnd(TrimStart(s))

\* s.trim().is_empty()
IsBlank(s) == Trim(s) = <<>>

UpperLetters ==
  <<"A","B","C","D","E","F","G","H","I","J","K","L","M",
    "N","O","P","Q","R","S","T","U","V","W","X","Y","Z">>

LowerLetters ==
  <<"a","b","c","d","e","f","g","h","i","j","k","l","m",
    "n","o","p","q","r","s","t","u","v","w","x","y","z">>

LowerChar(c) ==
  IF \E i \in 1..26 : UpperLetters[i] = c
  THEN LowerLetters[CHOOSE i \in 1..26 : UpperLetters[i] = c]
  ELSE c

UpperChar(c) ==
  IF \E i \in 1..26 : LowerLetters[i] = c
  THEN UpperLetters[CHOOSE i \in 1..26 : LowerLetters[i] = c]
  ELSE c

\* str::to_lowercase
ToLower(s) == [i \in 1..Len(s) |-> LowerChar(s[i])]

\* str::to_ascii_uppercase
ToAsciiUpper(s) == [i \in 1..Len(s) |-> UpperChar(s[i])]

\* str::replace(from, to) for single characters
ReplaceChar(s, from, to) == [i \in 1..Len(s) |-> IF s[i] = from THEN to ELSE s[i]]

RECURSIVE Split(_, _)
\* str::split(sep): the pieces between the occurrences of the character sep
Split(s, sep) ==
  IF \A i \in 1..Len(s) : s[i] # sep
  THEN <<s>>
  ELSE LET k == CHOOSE i \in 1..Len(s) : s[i] = sep /\ \A j \in 1..(i - 1) : s[j] # sep
       IN  <<SubSeq(s, 1, k - 1)>> \o Split(SubSeq(s, k + 1, Len(s)), sep)

\* every string of at most n characters of the alphabet
StrsUpTo(alphabet, n) == UNION {[1..k -> alphabet] : k \in 0..n}

(***************************************************************************)
(* std::path, Unix                                                         *)
(***************************************************************************)
\* Path::is_absolute: on Unix, the path has a root
is_absolute(p) == p # <<>> /\ p[1] = "/"

RECURSIVE ComponentsFrom(_, _, _)
ComponentsFrom(segs, i, rooted) ==
  IF i > Len(segs) THEN <<>>
  ELSE LET seg == segs[i]
           here == IF seg = <<>> THEN <<>>
                   ELSE IF seg = <<".">>
                        THEN (IF i = 1 /\ ~rooted
                              THEN <<[kind |-> "CurDir", name |-> seg]>>
                              ELSE <<>>)
                   ELSE IF seg = <<".", ".">>
                        THEN <<[kind |-> "ParentDir", name |-> seg]>>
                   ELSE <<[kind |-> "Normal", name |-> seg]>>
       IN  here \o ComponentsFrom(segs, i + 1, rooted)

\* Path::components: a leading '/' is RootDir, a leading "." is CurDir, every
\* other "." and every empty piece is dropped, ".." is ParentDir
components(p) ==
  (IF is_absolute(p) THEN <<[kind |-> "RootDir", name |-> <<"/">>]>> ELSE <<>>)
    \o ComponentsFrom(Split(p, "/"), 1, is_absolute(p))

(***************************************************************************)
(* commands.rs: validate_relative_path                                     *)
(***************************************************************************)
\* an error message is a sequence of lines; a line is a tuple: its text, then
\* the values formatted into it
PathOk(p) == [run |-> TRUE, ok |-> TRUE, path |-> p, err |-> <<>>]
PathErr(e) == [run |-> TRUE, ok |-> FALSE, path |-> <<>>, err |-> <<<<e>>>>]
NotValidated == [run |-> FALSE, ok |-> FALSE, path |-> <<>>, err |-> <<>>]

\* the mutant: the component loop lets ParentDir through
validate_relative_path_parent_ok(p) ==
  IF is_absolute(p) THEN PathErr("absolute path is not allowed")
  ELSE IF \E i \in 1..Len(components(p)) :
            components(p)[i].kind \notin {"Normal", "CurDir", "ParentDir"}
       THEN PathErr("invalid relative path")
       ELSE PathOk(p)

validate_relative_path(p) ==
  IF is_absolute(p) THEN PathErr("absolute path is not allowed")
  ELSE IF \E i \in 1..Len(components(p)) :
            components(p)[i].kind \notin {"Normal", "CurDir"}
       THEN PathErr("invalid relative path")
       ELSE PathOk(p)

(***************************************************************************)
(* Texts and JSON.  A text is <<"plain", s>>, characters that are no JSON, *)
(* or <<"json", j>>, the serialisation of the JSON value j.  A JSON value  *)
(* is [t, v]: a string, a number, an array (a sequence) or an object (a    *)
(* sequence of <<key, value>> pairs with distinct keys).                   *)
(***************************************************************************)
PlainText(s) == <<"plain", s>>
JsonText(j) == <<"json", j>>

JStr(s) == [t |-> "str", v |-> s]
JNum(n) == [t |-> "num", v |-> n]
JBool(b) == [t |-> "bool", v |-> b]
JArr(a) == [t |-> "arr", v |-> a]
JObj(pairs) == [t |-> "obj", v |-> pairs]

\* serde_json::Value::get(key): Some only on an object that has the key
JHas(j, k) == j.t = "obj" /\ \E i \in 1..Len(j.v) : j.v[i][1] = k
JGet(j, k) == j.v[CHOOSE i \in 1..Len(j.v) : j.v[i][1] = k][2]

\* .get(key).and_then(|v| v.as_str())
JHasStr(j, k) == JHas(j, k) /\ JGet(j, k).t = "str"

\* serde_json::from_str::<Value>
from_str(text) ==
  IF text[1] = "json" THEN [ok |-> TRUE, val |-> text[2]]
  ELSE [ok |-> FALSE, val |-> JObj(<<>>)]

\* str::trim().is_empty() of a text: JSON is never blank
TextIsBlank(text) == text[1] = "plain" /\ IsBlank(text[2])

\* an insert into a BTreeMap / HashMap held as a function
MapPut(m, k, x) == [y \in DOMAIN m \cup {k} |-> IF y = k THEN x ELSE m[y]]
EmptyMap == [y \in {} |-> 0]

(***************************************************************************)
(* commands.rs: validate_outline                                           *)
(***************************************************************************)
\* #[derive(Deserialize, Default)] struct Event, every field #[serde(default)]
DefaultEvent == [id |-> <<>>, time |-> <<>>, location |-> <<>>, characters |-> <<>>]

\* a String field: absent (the default) or a JSON string
StrFieldOk(j, k) == ~JHas(j, k) \/ JGet(j, k).t = "str"
StrField(j, k) == IF JHas(j, k) THEN JGet(j, k).v ELSE <<>>

\* the Vec<String> field characters: absent or an array of strings
CharactersOk(j) ==
  \/ ~JHas(j, "characters")
  \/ /\ JGet(j, "characters").t = "arr"
     /\ \A i \in 1..Len(JGet(j, "characters").v) : JGet(j, "characters").v[i].t = "str"

EventOk(j) ==
  /\ j.t = "obj"
  /\ StrFieldOk(j, "id") /\ StrFieldOk(j, "time") /\ StrFieldOk(j, "location")
  /\ StrFieldOk(j, "description")
  /\ CharactersOk(j)

EventOf(j) ==
  [id |-> StrField(j, "id"), time |-> StrField(j, "time"),
   location |-> StrField(j, "location"),
   characters |-> IF JHas(j, "characters")
                  THEN [i \in 1..Len(JGet(j, "characters").v) |-> JGet(j, "characters").v[i].v]
                  ELSE <<>>]

\* serde_json::from_str::<Outline>: an object whose "events", when present, is
\* an array of events
OutlineOk(text) ==
  /\ from_str(text).ok
  /\ LET j == from_str(text).val IN
     /\ j.t = "obj"
     /\ JHas(j, "events") =>
          /\ JGet(j, "events").t = "arr"
          /\ \A i \in 1..Len(JGet(j, "events").v) : EventOk(JGet(j, "events").v[i])

OutlineEvents(text) ==
  LET j == from_str(text).val IN
  IF JHas(j, "events")
  THEN [i \in 1..Len(JGet(j, "events").v) |-> EventOf(JGet(j, "events").v[i])]
  ELSE <<>>

\* format!("事件 id 重复：{}（{} 与 {}）", id, prev + 1, idx + 1)
DupIdMsg(id, prev1, idx1) == <<"duplicate id", id, prev1, idx1>>

\* format!("时间线冲突：{} 在 {} 同时出现在 {} 与 {}", ch, time, prev_loc, location)
TimelineMsg(ch, time, prev_loc, loc) == <<"timeline conflict", ch, time, prev_loc, loc>>

RECURSIVE ScanIdsAll(_, _, _, _)
\* the mutant: the id loop without the blank-id test
ScanIdsAll(combined, idx, id_set, conflicts) ==
  IF idx >= Len(combined) THEN conflicts
  ELSE LET ev == combined[idx + 1] IN
       ScanIdsAll(combined, idx + 1, MapPut(id_set, ev.id, idx),
                  IF ev.id \in DOMAIN id_set
                  THEN Append(conflicts, DupIdMsg(ev.id, id_set[ev.id] + 1, idx + 1))
                  ELSE conflicts)

RECURSIVE ScanIds(_, _, _, _)
\* for (idx, ev) in combined.iter().enumerate(): id_set.insert returns the
\* index stored before, which the insert replaces
ScanIds(combined, idx, id_set, conflicts) ==
  IF idx >= Len(combined) THEN conflicts
  ELSE LET ev == combined[idx + 1] IN
       IF ~IsBlank(ev.id)
       THEN ScanIds(combined, idx + 1, MapPut(id_set, ev.id, idx),
                    IF ev.id \in DOMAIN id_set
                    THEN Append(conflicts, DupIdMsg(ev.id, id_set[ev.id] + 1, idx + 1))
                    ELSE conflicts)
       ELSE ScanIds(combined, idx + 1, id_set, conflicts)

RECURSIVE ScanCharactersLatest(_, _, _)
\* the mutant: the location of a conflicting event replaces the recorded one
ScanCharactersLatest(ev, k, acc) ==
  IF k > Len(ev.characters) THEN acc
  ELSE LET ch == ev.characters[k]
           by_time == IF ch \in DOMAIN acc.per_character
                      THEN acc.per_character[ch] ELSE EmptyMap
       IN  IF ev.time \in DOMAIN by_time
           THEN ScanCharactersLatest(ev, k + 1,
                  IF ~IsBlank(ev.location) /\ by_time[ev.time] # ev.location
                  THEN [per_character |->
                          MapPut(acc.per_character, ch, MapPut(by_time, ev.time, ev.location)),
                        conflicts |->
                          Append(acc.conflicts,
                                 TimelineMsg(ch, ev.time, by_time[ev.time], ev.location))]
                  ELSE [acc EXCEPT !.per_character = MapPut(acc.per_character, ch, by_time)])
           ELSE ScanCharactersLatest(ev, k + 1,
                  [acc EXCEPT !.per_character =
                     MapPut(acc.per_character, ch,
                            IF ~IsBlank(ev.location)
                            THEN MapPut(by_time, ev.time, ev.location)
                            ELSE by_time)])

RECURSIVE ScanCharacters(_, _, _)
\* for ch in ev.characters: compare with, or record, the location at ev.time
ScanCharacters(ev, k, acc) ==
  IF k > Len(ev.characters) THEN acc
  ELSE LET ch == ev.characters[k]
           by_time == IF ch \in DOMAIN acc.per_character
                      THEN acc.per_character[ch] ELSE EmptyMap
       IN  IF ev.time \in DOMAIN by_time
           THEN ScanCharacters(ev, k + 1,
                  IF ~IsBlank(ev.location) /\ by_time[ev.time] # ev.location
                  THEN [per_character |-> MapPut(acc.per_character, ch, by_time),
                        conflicts |->
                          Append(acc.conflicts,
                                 TimelineMsg(ch, ev.time, by_time[ev.time], ev.location))]
                  ELSE [acc EXCEPT !.per_character = MapPut(acc.per_character, ch, by_time)])
           ELSE ScanCharacters(ev, k + 1,
                  [acc EXCEPT !.per_character =
                     MapPut(acc.per_character, ch,
                            IF ~IsBlank(ev.location)
                            THEN MapPut(by_time, ev.time, ev.location)
                            ELSE by_time)])

RECURSIVE ScanTimeline(_, _, _)
\* for ev in combined: events with a blank time or no characters are skipped
ScanTimeline(combined, i, acc) ==
  IF i > Len(combined) THEN acc.conflicts
  ELSE LET ev == combined[i] IN
       IF IsBlank(ev.time) \/ ev.characters = <<>>
       THEN ScanTimeline(combined, i + 1, acc)
       ELSE ScanTimeline(combined, i + 1, ScanCharacters(ev, 1, acc))

\* the events validate_outline checks: existing first, then incoming
Combined(existing_json, new_json) ==
  (IF TextIsBlank(existing_json) \/ ~OutlineOk(existing_json)
   THEN <<>> ELSE OutlineEvents(existing_json))
    \o OutlineEvents(new_json)

\* the mutant: the result holds the first conflict only
validate_outline_first(existing_json, new_json) ==
  IF ~OutlineOk(new_json)
  THEN [run |-> TRUE, ok |-> FALSE, err |-> <<<<"outline json invalid">>>>]
  ELSE LET combined == Combined(existing_json, new_json)
           conflicts ==
             ScanTimeline(combined, 1,
               [per_character |-> EmptyMap,
                conflicts |-> ScanIds(combined, 0, EmptyMap, <<>>)])
       IN  [run |-> TRUE, ok |-> conflicts = <<>>,
            err |-> IF conflicts = <<>> THEN <<>> ELSE <<conflicts[1]>>]

\* Ok(()) or Err(the conflicts, one per line)
validate_outline(existing_json, new_json) ==
  IF ~OutlineOk(new_json)
  THEN [run |-> TRUE, ok |-> FALSE, err |-> <<<<"outline json invalid">>>>]
  ELSE LET combined == Combined(existing_json, new_json)
           conflicts ==
             ScanTimeline(combined, 1,
               [per_character |-> EmptyMap,
                conflicts |-> ScanIds(combined, 0, EmptyMap, <<>>)])
       IN  [run |-> TRUE, ok |-> conflicts = <<>>, err |-> conflicts]

(***************************************************************************)
(* The file system: a function from locations (the names from "/" down) to *)
(* nodes.  Every std::fs call returns the file system it leaves and the    *)
(* locations it was issued on.                                             *)
(***************************************************************************)
DirNode == [kind |-> "dir", data |-> PlainText(<<>>)]
FileNode(text) == [kind |-> "file", data |-> text]

IsDirAt(f, loc) == loc \in DOMAIN f /\ f[loc].kind = "dir"
IsFileAt(f, loc) == loc \in DOMAIN f /\ f[loc].kind = "file"
ParentLoc(loc) == IF loc = <<>> THEN <<>> ELSE SubSeq(loc, 1, Len(loc) - 1)

\* Path::join: an absolute path replaces the base
Join(base, rel) ==
  IF is_absolute(rel) THEN rel
  ELSE IF EndsWith(base, <<"/">>) THEN base \o rel
  ELSE base \o <<"/">> \o rel

RECURSIVE WalkFrom(_, _, _, _)
\* path resolution: a name or ".." is looked up in a directory that exists
WalkFrom(f, comps, i, loc) ==
  IF i > Len(comps) THEN [st |-> "ok", loc |-> loc]
  ELSE LET c == comps[i] IN
       IF c.kind = "RootDir" THEN WalkFrom(f, comps, i + 1, <<>>)
       ELSE IF c.kind = "CurDir" THEN WalkFrom(f, comps, i + 1, loc)
       ELSE IF loc \notin DOMAIN f THEN [st |-> "NotFound", loc |-> loc]
       ELSE IF f[loc].kind # "dir" THEN [st |-> "NotADirectory", loc |-> loc]
       ELSE WalkFrom(f, comps, i + 1,
                     IF c.kind = "ParentDir" THEN ParentLoc(loc) ELSE Append(loc, c.name))

\* the location an absolute path names; a path that ends in a separator names
\* a directory
ResolveEnd(f, p, r) ==
  IF r.st = "ok" /\ EndsWith(p, <<"/">>) /\ IsFileAt(f, r.loc)
  THEN [st |-> "NotADirectory", loc |-> r.loc]
  ELSE r
Resolve(f, p) == ResolveEnd(f, p, WalkFrom(f, components(p), 1, <<>>))

Op(name, loc) == <<name, loc>>

\* fs::read_to_string
ReadAt(f, r) ==
  [ok |-> r.st = "ok" /\ IsFileAt(f, r.loc),
   text |-> IF r.st = "ok" /\ IsFileAt(f, r.loc) THEN f[r.loc].data ELSE PlainText(<<>>),
   ops |-> {Op("read", r.loc)}]
read_to_string(f, p) == ReadAt(f, Resolve(f, p))

\* fs::metadata: the kind of the node, NotFound, or another error
StatAt(f, r) ==
  [st |-> IF r.st = "ok" /\ r.loc \in DOMAIN f THEN "ok"
          ELSE IF r.st = "NotADirectory" THEN "NotADirectory"
          ELSE "NotFound",
   kind |-> IF r.st = "ok" /\ r.loc \in DOMAIN f THEN f[r.loc].kind ELSE "none",
   ops |-> {Op("stat", r.loc)}]
metadata(f, p) == StatAt(f, Resolve(f, p))

\* Path::exists
exists(f, p) == metadata(f, p).st = "ok"

\* fs::read_dir: the names and kinds of the entries of a directory
ListAt(f, r) ==
  [ok |-> r.st = "ok" /\ IsDirAt(f, r.loc),
   loc |-> r.loc,
   items |-> IF r.st = "ok" /\ IsDirAt(f, r.loc)
             THEN {<<l[Len(l)], f[l].kind>> :
                     l \in {m \in DOMAIN f : m # <<>> /\ ParentLoc(m) = r.loc}}
             ELSE {},
   ops |-> {Op("read", r.loc)}]
read_dir(f, p) == ListAt(f, Resolve(f, p))

\* fs::write: creates or truncates the file; the parent must be a directory
\* and the target must not be one
WriteAt(f, p, text, r) ==
  LET ok == /\ r.st = "ok" /\ ~EndsWith(p, <<"/">>)
            /\ r.loc # <<>> /\ IsDirAt(f, ParentLoc(r.loc)) /\ ~IsDirAt(f, r.loc)
  IN  [ok |-> ok,
       fs |-> IF ok THEN MapPut(f, r.loc, FileNode(text)) ELSE f,
       ops |-> {Op("write", r.loc)}]
write(f, p, text) == WriteAt(f, p, text, Resolve(f, p))

RECURSIVE MkdirFrom(_, _, _, _, _)
MkdirFrom(f, comps, i, loc, ops) ==
  IF i > Len(comps) THEN [ok |-> TRUE, fs |-> f, ops |-> ops \cup {Op("mkdir", loc)}]
  ELSE LET c == comps[i] IN
       IF c.kind = "RootDir" THEN MkdirFrom(f, comps, i + 1, <<>>, ops)
       ELSE IF c.kind = "CurDir" THEN MkdirFrom(f, comps, i + 1, loc, ops)
       ELSE IF c.kind = "ParentDir" THEN MkdirFrom(f, comps, i + 1, ParentLoc(loc), ops)
       ELSE LET next == Append(loc, c.name) IN
            IF IsFileAt(f, next)
            THEN [ok |-> FALSE, fs |-> f, ops |-> ops \cup {Op("mkdir", next)}]
            ELSE IF IsDirAt(f, next) THEN MkdirFrom(f, comps, i + 1, next, ops)
            ELSE MkdirFrom(MapPut(f, next, DirNode), comps, i + 1, next,
                           ops \cup {Op("mkdir", next)})

\* fs::create_dir_all: creates the missing directories from the top down;
\* fails on a name that is a file
create_dir_all(f, p) == MkdirFrom(f, components(p), 1, <<>>, {})

\* Path::parent: the path without its last component; None for the root
HasParentIn(comps) == comps # <<>> /\ comps[Len(comps)].kind # "RootDir"
HasParent(p) == HasParentIn(components(p))

RECURSIVE JoinComponents(_, _)
JoinComponents(comps, i) ==
  IF i > Len(comps) THEN <<>>
  ELSE (IF comps[i].kind = "RootDir" THEN <<"/">>
        ELSE IF i < Len(comps) THEN comps[i].name \o <<"/">>
        ELSE comps[i].name)
       \o JoinComponents(comps, i + 1)

ParentOf(comps) == JoinComponents(SubSeq(comps, 1, Len(comps) - 1), 1)
parent(p) == ParentOf(components(p))

S_ws == <<"/", "w", "s">>
S_novel == <<".", "n", "o", "v", "e", "l">>
S_cache == <<".", "c", "a", "c", "h", "e">>
S_concept_index ==
  <<"c", "o", "n", "c", "e", "p", "t", "_", "i", "n", "d", "e", "x", ".", "j", "s", "o", "n">>

\* ToolContext.workspace_root
workspace_root == S_ws
WorkspaceLoc == <<<<"w", "s">>>>

(***************************************************************************)
(* commands.rs: update_concept_index                                       *)
(***************************************************************************)
\* the characters of the model in ASCII order: the order of String keys in a
\* BTreeMap
Ascii ==
  <<"\t", "\n", "\r", " ", ".", "/", "0", "1", "2", "3", "4", "5", "6", "7", "8", "9",
    ":", "A", "B", "C", "D", "E", "F", "G", "H", "I", "J", "K", "L", "M", "N", "O", "P",
    "Q", "R", "S", "T", "U", "V", "W", "X", "Y", "Z", "\\", "_", "a", "b", "c", "d",
    "e", "f", "g", "h", "i", "j", "k", "l", "m", "n", "o", "p", "q", "r", "s", "t", "u",
    "v", "w", "x", "y", "z">>
Rank(c) == CHOOSE i \in 1..Len(Ascii) : Ascii[i] = c

RECURSIVE StrLess(_, _)
StrLess(a, b) ==
  IF b = <<>> THEN FALSE
  ELSE IF a = <<>> THEN TRUE
  ELSE IF a[1] = b[1] THEN StrLess(Tail(a), Tail(b))
  ELSE Rank(a[1]) < Rank(b[1])

RECURSIVE SortedKeys(_)
SortedKeys(keys) ==
  IF keys = {} THEN <<>>
  ELSE LET k == CHOOSE x \in keys : \A y \in keys \ {x} : StrLess(x, y)
       IN  <<k>> \o SortedKeys(keys \ {k})

Digits == <<"0", "1", "2", "3", "4", "5", "6", "7", "8", "9">>

RECURSIVE ToDecimal(_)
\* u64::to_string
ToDecimal(n) ==
  IF n < 10 THEN <<Digits[n + 1]>>
  ELSE ToDecimal(n \div 10) \o <<Digits[(n % 10) + 1]>>

\* blake3::hash(content).to_hex().to_string(): one hex string per content
Hash(content) == <<"blake3", content>>

\* the mutant: the default index starts at revision 1
DefaultIndex_one == [revision |-> 1, updated_at |-> <<>>, files |-> EmptyMap]

\* ConceptIndex::default()
DefaultIndex == [revision |-> 0, updated_at |-> <<>>, files |-> EmptyMap]

\* serde_json::to_string_pretty(&index): the fields in declaration order, the
\* files in key order
FileInfoJson(info) ==
  JObj(<<<<"hash", JStr(info.hash)>>, <<"revision", JNum(info.revision)>>,
         <<"updated_at", JStr(info.updated_at)>>>>)

IndexJson(index) ==
  JObj(<<<<"revision", JNum(index.revision)>>,
         <<"updated_at", JStr(index.updated_at)>>,
         <<"files",
           JObj([i \in 1..Cardinality(DOMAIN index.files) |->
                   <<SortedKeys(DOMAIN index.files)[i],
                     FileInfoJson(index.files[SortedKeys(DOMAIN index.files)[i]])>>])>>>>)

\* serde_json::from_str::<ConceptIndex>: every field is required
FileInfoOk(j) ==
  /\ j.t = "obj"
  /\ JHasStr(j, "hash") /\ JHasStr(j, "updated_at")
  /\ JHas(j, "revision") /\ JGet(j, "revision").t = "num" /\ JGet(j, "revision").v >= 0

IndexOk(text) ==
  /\ from_str(text).ok
  /\ LET j == from_str(text).val IN
     /\ j.t = "obj"
     /\ JHas(j, "revision") /\ JGet(j, "revision").t = "num" /\ JGet(j, "revision").v >= 0
     /\ JHasStr(j, "updated_at")
     /\ JHas(j, "files") /\ JGet(j, "files").t = "obj"
     /\ \A i \in 1..Len(JGet(j, "files").v) : FileInfoOk(JGet(j, "files").v[i][2])

IndexOf(text) ==
  LET j == from_str(text).val
      files == JGet(j, "files").v
  IN  [revision |-> JGet(j, "revision").v,
       updated_at |-> JGet(j, "updated_at").v,
       files |-> [k \in {files[i][1] : i \in 1..Len(files)} |->
                    LET info == JGet(JGet(j, "files"), k) IN
                    [hash |-> JGet(info, "hash").v,
                     revision |-> JGet(info, "revision").v,
                     updated_at |-> JGet(info, "updated_at").v]]]

index_path == Join(Join(Join(workspace_root, S_novel), S_cache), S_concept_index)

\* the index the call starts from: the file's, or the default when the file
\* is missing, unreadable or does not parse
LoadRead(md, raw) ==
  [index |-> IF raw.ok /\ IndexOk(raw.text) THEN IndexOf(raw.text) ELSE DefaultIndex,
   ops |-> md.ops \cup raw.ops]
LoadFound(f, md) ==
  IF md.st = "ok" THEN LoadRead(md, read_to_string(f, index_path))
  ELSE [index |-> DefaultIndex, ops |-> md.ops]
LoadIndex(f) == LoadFound(f, metadata(f, index_path))

\* the mutant: every changed entry is stored with revision 1
BumpFirst(index, rel_path, content, now) ==
  IF rel_path \in DOMAIN index.files /\ index.files[rel_path].hash = Hash(content)
  THEN index
  ELSE [revision |-> index.revision + 1, updated_at |-> ToDecimal(now),
        files |-> MapPut(index.files, rel_path,
                         [hash |-> Hash(content), revision |-> 1,
                          updated_at |-> ToDecimal(now)])]

\* the mutant: a changed entry is stored and the global revision is left as
\* it was
BumpUncounted(index, rel_path, content, now) ==
  IF rel_path \in DOMAIN index.files /\ index.files[rel_path].hash = Hash(content)
  THEN index
  ELSE [revision |-> index.revision, updated_at |-> ToDecimal(now),
        files |-> MapPut(index.files, rel_path,
                         [hash |-> Hash(content), revision |-> index.revision,
                          updated_at |-> ToDecimal(now)])]

\* the mutant: the revision is bumped and the entry restamped on every call
BumpAlways(index, rel_path, content, now) ==
  LET revision == index.revision + 1 IN
  [revision |-> revision, updated_at |-> ToDecimal(now),
   files |-> MapPut(index.files, rel_path,
                    [hash |-> Hash(content), revision |-> revision,
                     updated_at |-> ToDecimal(now)])]

\* the index after the comparison of the hashes; the revision saturates at
\* u64::MAX, which no run of the model reaches
Bump(index, rel_path, content, now) ==
  LET hash == Hash(content)
      changed == IF rel_path \in DOMAIN index.files
                 THEN index.files[rel_path].hash # hash ELSE TRUE
      revision == index.revision + 1
  IN  IF changed
      THEN [revision |-> revision, updated_at |-> ToDecimal(now),
            files |-> MapPut(index.files, rel_path,
                             [hash |-> hash, revision |-> revision,
                              updated_at |-> ToDecimal(now)])]
      ELSE index

\* update_concept_index(root, rel_path, content) at the time now
IndexWritten(ops, written) ==
  IF ~written.ok
  THEN [ok |-> FALSE, err |-> <<<<"write concept index failed">>>>, fs |-> written.fs,
        ops |-> ops \cup written.ops]
  ELSE [ok |-> TRUE, err |-> <<>>, fs |-> written.fs, ops |-> ops \cup written.ops]
IndexMade(index, ops, made) ==
  IF ~made.ok
  THEN [ok |-> FALSE, err |-> <<<<"create concept index dir failed">>>>, fs |-> made.fs,
        ops |-> ops \cup made.ops]
  ELSE IndexWritten(ops \cup made.ops,
                    write(made.fs, index_path, JsonText(IndexJson(index))))
IndexLoaded(f, rel_path, content, now, loaded) ==
  IndexMade(Bump(loaded.index, rel_path, content, now), loaded.ops,
            create_dir_all(f, parent(index_path)))
update_concept_index(f, rel_path, content, now) ==
  IndexLoaded(f, rel_path, content, now, LoadIndex(f))

(***************************************************************************)
(* The states in which a part of the model is not in use                   *)
(***************************************************************************)
NotRun == [run |-> FALSE, ok |-> FALSE, err |-> <<>>]

PathIdle == relative_path = <<>> /\ validated = NotValidated

OutlineIdle ==
  /\ existing_form = "blank" /\ existing_events = <<>>
  /\ new_form = "json" /\ new_events = <<>>
  /\ outline_result = NotRun

(***************************************************************************)
(* agent_system.rs: the tools AgentRuntime::new registers.  A handler      *)
(* returns Ok(value) or Err(message), the file system it leaves and the    *)
(* std::fs calls it issued.                                                *)
(***************************************************************************)
S_fs_read_text == <<"f", "s", "_", "r", "e", "a", "d", "_", "t", "e", "x", "t">>
S_fs_list_dir == <<"f", "s", "_", "l", "i", "s", "t", "_", "d", "i", "r">>
S_fs_exists == <<"f", "s", "_", "e", "x", "i", "s", "t", "s">>
S_fs_create_dir == <<"f", "s", "_", "c", "r", "e", "a", "t", "e", "_", "d", "i", "r">>
S_fs_write_text == <<"f", "s", "_", "w", "r", "i", "t", "e", "_", "t", "e", "x", "t">>
S_concept_dir == <<"c", "o", "n", "c", "e", "p", "t", "/">>
S_outline_dir == <<"o", "u", "t", "l", "i", "n", "e", "/">>
S_stories_dir == <<"s", "t", "o", "r", "i", "e", "s", "/">>
S_md == <<".", "m", "d">>
S_outline_json == <<".", "n", "o", "v", "e", "l", "/", ".", "c", "a", "c", "h", "e", "/", "o", "u", "t", "l", "i", "n", "e", ".", "j", "s", "o", "n">>

ToolOk(val, f, ops) == [ok |-> TRUE, val |-> val, err |-> <<>>, fs |-> f, ops |-> ops]
ToolErr(e, f, ops) == [ok |-> FALSE, val |-> JObj(<<>>), err |-> e, fs |-> f, ops |-> ops]
Msg(e) == <<<<e>>>>

\* fs_read_text
ReadResult(f, raw) ==
  IF ~raw.ok THEN ToolErr(Msg("read failed"), f, raw.ops)
  ELSE ToolOk(JObj(<<<<"text", JStr(raw.text)>>>>), f, raw.ops)
ReadValidated(f, rel) ==
  IF ~rel.ok THEN ToolErr(rel.err, f, {})
  ELSE ReadResult(f, read_to_string(f, Join(workspace_root, rel.path)))

\* the mutant: the handler joins the path without validating it
fs_read_text_unchecked(f, args) ==
  IF ~JHasStr(args, "path") THEN ToolErr(Msg("missing args.path"), f, {})
  ELSE IF IsBlank(JGet(args, "path").v) THEN ToolErr(Msg("empty path"), f, {})
  ELSE ReadResult(f, read_to_string(f, Join(workspace_root, JGet(args, "path").v)))

fs_read_text(f, args) ==
  IF ~JHasStr(args, "path") THEN ToolErr(Msg("missing args.path"), f, {})
  ELSE IF IsBlank(JGet(args, "path").v) THEN ToolErr(Msg("empty path"), f, {})
  ELSE ReadValidated(f, validate_relative_path(JGet(args, "path").v))

\* fs_list_dir; the entries in name order (the order of fs::read_dir is the
\* platform's)
DirItem(items, name) ==
  JObj(<<<<"name", JStr(name)>>,
         <<"kind", JStr((CHOOSE it \in items : it[1] = name)[2])>>>>)
DirItems(items, names) == JArr([i \in 1..Len(names) |-> DirItem(items, names[i])])
\* p.is_dir() of every entry
ListResult(f, listed) ==
  IF ~listed.ok THEN ToolErr(Msg("read dir failed"), f, listed.ops)
  ELSE ToolOk(JObj(<<<<"items",
                       DirItems(listed.items, SortedKeys({it[1] : it \in listed.items}))>>>>),
              f,
              listed.ops \cup {Op("stat", Append(listed.loc, it[1])) : it \in listed.items})
ListValidated(f, rel) ==
  IF ~rel.ok THEN ToolErr(rel.err, f, {})
  ELSE ListResult(f, read_dir(f, Join(workspace_root, rel.path)))
ListPath(f, path) ==
  ListValidated(f, IF IsBlank(path) THEN PathOk(<<>>) ELSE validate_relative_path(path))
fs_list_dir(f, args) ==
  ListPath(f, IF JHasStr(args, "path") THEN JGet(args, "path").v ELSE <<>>)

\* fs_exists
ExistsResult(f, md) ==
  IF md.st = "NotFound" THEN ToolOk(JObj(<<<<"exists", JBool(FALSE)>>>>), f, md.ops)
  ELSE IF md.st # "ok" THEN ToolErr(Msg("stat failed"), f, md.ops)
  ELSE ToolOk(JObj(<<<<"exists", JBool(TRUE)>>, <<"kind", JStr(md.kind)>>>>), f, md.ops)
ExistsValidated(f, rel) ==
  IF ~rel.ok THEN ToolErr(rel.err, f, {})
  ELSE ExistsResult(f, metadata(f, Join(workspace_root, rel.path)))
fs_exists(f, args) ==
  IF ~JHasStr(args, "path") THEN ToolErr(Msg("missing args.path"), f, {})
  ELSE IF IsBlank(JGet(args, "path").v) THEN ToolErr(Msg("empty path"), f, {})
  ELSE ExistsValidated(f, validate_relative_path(JGet(args, "path").v))

\* fs_create_dir
CreateResult(made) ==
  IF ~made.ok THEN ToolErr(Msg("create dir failed"), made.fs, made.ops)
  ELSE ToolOk(JObj(<<<<"ok", JBool(TRUE)>>>>), made.fs, made.ops)
CreateValidated(f, rel) ==
  IF ~rel.ok THEN ToolErr(rel.err, f, {})
  ELSE CreateResult(create_dir_all(f, Join(workspace_root, rel.path)))
fs_create_dir(f, args) ==
  IF ~JHasStr(args, "path") THEN ToolErr(Msg("missing args.path"), f, {})
  ELSE IF IsBlank(JGet(args, "path").v) THEN ToolErr(Msg("empty path"), f, {})
  ELSE CreateValidated(f, validate_relative_path(JGet(args, "path").v))

\* the extension rule of fs_write_text on rel_norm
ReservedFolder(rel_norm) ==
  \/ StartsWith(rel_norm, S_concept_dir)
  \/ StartsWith(rel_norm, S_outline_dir)
  \/ StartsWith(rel_norm, S_stories_dir)
IsMd(rel_norm) == EndsWith(ToLower(rel_norm), S_md)

\* fs_write_text, from its end to its start: the concept index is updated
Indexed(ops, indexed) ==
  IF ~indexed.ok THEN ToolErr(indexed.err, indexed.fs, ops \cup indexed.ops)
  ELSE ToolOk(JObj(<<<<"ok", JBool(TRUE)>>>>), indexed.fs, ops \cup indexed.ops)
\* fs::write has run
Written(rel_norm, text, now, ops, written) ==
  IF ~written.ok THEN ToolErr(Msg("write failed"), written.fs, ops \cup written.ops)
  ELSE IF StartsWith(rel_norm, S_concept_dir) /\ IsMd(rel_norm)
  THEN Indexed(ops \cup written.ops, update_concept_index(written.fs, rel_norm, text, now))
  ELSE ToolOk(JObj(<<<<"ok", JBool(TRUE)>>>>), written.fs, ops \cup written.ops)
\* target.parent() and parent.exists()
ParentFound(md) == [ok |-> md.st = "ok", ops |-> md.ops]
ParentCheck(f, target) ==
  IF HasParent(target) THEN ParentFound(metadata(f, parent(target)))
  ELSE [ok |-> TRUE, ops |-> {}]
ParentChecked(f, rel_norm, target, text, now, ops, found) ==
  IF ~found.ok
  THEN ToolErr(Msg("parent directory does not exist; create it first"), f,
               ops \cup found.ops)
  ELSE Written(rel_norm, text, now, ops \cup found.ops, write(f, target, text))
\* the outline check: the file is read when it exists, then validate_outline
OutlineValidated(ops, checked) == [ok |-> checked.ok, err |-> checked.err, ops |-> ops]
OutlineRead(text, ops, raw) ==
  OutlineValidated(ops \cup raw.ops, validate_outline(raw.text, text))
OutlineFound(f, target, text, md) ==
  OutlineRead(text, md.ops,
              IF md.st = "ok" THEN read_to_string(f, target)
              ELSE [ok |-> FALSE, text |-> PlainText(<<>>), ops |-> {}])
OutlineCheck(f, rel_norm, target, text) ==
  IF rel_norm = S_outline_json THEN OutlineFound(f, target, text, metadata(f, target))
  ELSE [ok |-> TRUE, err |-> <<>>, ops |-> {}]
OutlineChecked(f, rel_norm, target, text, now, checked) ==
  IF ~checked.ok THEN ToolErr(checked.err, f, checked.ops)
  ELSE ParentChecked(f, rel_norm, target, text, now, checked.ops, ParentCheck(f, target))
\* the path is validated and joined
WriteTarget(f, rel_norm, target, text, now) ==
  OutlineChecked(f, rel_norm, target, text, now, OutlineCheck(f, rel_norm, target, text))
WriteValidated(f, rel_norm, text, now, rel) ==
  IF ~rel.ok THEN ToolErr(rel.err, f, {})
  ELSE WriteTarget(f, rel_norm, Join(workspace_root, rel.path), text, now)
WritePath(f, path, rel_norm, text, now) ==
  IF IsBlank(path) THEN ToolErr(Msg("empty path"), f, {})
  ELSE IF ReservedFolder(rel_norm) /\ ~IsMd(rel_norm)
  THEN ToolErr(Msg("concept/outline/stories: only .md files may be written"), f, {})
  ELSE WriteValidated(f, rel_norm, text, now, validate_relative_path(path))
fs_write_text(f, args, now) ==
  IF ~JHasStr(args, "path") THEN ToolErr(Msg("missing args.path"), f, {})
  ELSE WritePath(f, JGet(args, "path").v, ReplaceChar(JGet(args, "path").v, "\\", "/"),
                 IF JHasStr(args, "text") THEN JGet(args, "text").v ELSE PlainText(<<>>),
                 now)

\* the names AgentRuntime::new registers
RegisteredTools ==
  {S_fs_read_text, S_fs_list_dir, S_fs_exists, S_fs_create_dir, S_fs_write_text}

\* ToolRegistry::call
call(f, name, args, now) ==
  IF name \notin RegisteredTools THEN ToolErr(<<<<"unknown tool", name>>>>, f, {})
  ELSE IF name = S_fs_read_text THEN fs_read_text(f, args)
  ELSE IF name = S_fs_list_dir THEN fs_list_dir(f, args)
  ELSE IF name = S_fs_exists THEN fs_exists(f, args)
  ELSE IF name = S_fs_create_dir THEN fs_create_dir(f, args)
  ELSE fs_write_text(f, args, now)

(***************************************************************************)
(* commands.rs: write_text                                                 *)
(***************************************************************************)
S_write_text == <<"w", "r", "i", "t", "e", "_", "t", "e", "x", "t">>

\* Ok(()): the command returns no value
Unit == [t |-> "null", v |-> <<>>]
UnitResult(r) == IF r.ok THEN [r EXCEPT !.val = Unit] ELSE r

\* the path is validated, the target joined and rel_norm taken; the outline
\* check, the parent check, the write and the index update are those of
\* fs_write_text, line for line
WriteTextValidated(f, rel_norm, content, now, rel) ==
  IF ~rel.ok THEN ToolErr(rel.err, f, {})
  ELSE UnitResult(WriteTarget(f, rel_norm, Join(workspace_root, rel.path), content, now))
write_text(f, path, content, now) ==
  WriteTextValidated(f, ReplaceChar(path, "\\", "/"), content, now,
                     validate_relative_path(path))

(***************************************************************************)
(* agent_system.rs: ToolRegistry, over any handlers.  tools is the HashMap *)
(* from names to handlers; a handler is known by its number and returns it *)
(***************************************************************************)
\* ToolRegistry::new
ToolRegistry_new == EmptyMap

\* the mutant: a name that is registered keeps its handler
ToolRegistry_register_kept(tools_map, name, handler) ==
  IF name \in DOMAIN tools_map THEN tools_map ELSE MapPut(tools_map, name, handler)

\* ToolRegistry::register: HashMap::insert
ToolRegistry_register(tools_map, name, handler) == MapPut(tools_map, name, handler)

\* ToolRegistry::call: the handler is looked up by the name as it is spelled
ToolRegistry_call(tools_map, name) ==
  IF name \notin DOMAIN tools_map
  THEN [ok |-> FALSE, val |-> 0, err |-> <<<<"unknown tool", name>>>>, ran |-> <<>>]
  ELSE [ok |-> TRUE, val |-> tools_map[name], err |-> <<>>, ran |-> <<tools_map[name]>>]

\* ToolRegistry::list: the keys, in whatever order the HashMap yields them,
\* sorted by the order of String
ToolRegistry_list(tools_map) == SortedKeys(DOMAIN tools_map)

(***************************************************************************)
(* agent_system.rs: parse_tool_call                                        *)
(***************************************************************************)
S_memory_upsert == <<"m", "e", "m", "o", "r", "y", "_", "u", "p", "s", "e", "r", "t">>
S_memory_search == <<"m", "e", "m", "o", "r", "y", "_", "s", "e", "a", "r", "c", "h">>
S_ACTION == <<"A", "C", "T", "I", "O", "N", ":">>
S_INPUT == <<"I", "N", "P", "U", "T", ":">>
S_agent_memory == <<"a", "g", "e", "n", "t", "_", "m", "e", "m", "o", "r", "y", ".", "j", "s", "o", "n">>

\* str::lines: the pieces between line feeds, without the carriage return
\* that ends a piece and without a last empty piece
DropLastEmpty(pieces) ==
  IF pieces[Len(pieces)] = <<>> THEN SubSeq(pieces, 1, Len(pieces) - 1) ELSE pieces
StripReturn(piece) ==
  IF EndsWith(piece, <<"\r">>) THEN SubSeq(piece, 1, Len(piece) - 1) ELSE piece
LinesOf(kept) == [i \in 1..Len(kept) |-> StripReturn(kept[i])]
lines(s) == LinesOf(DropLastEmpty(Split(s, "\n")))

\* t.splitn(2, ':').nth(1): what follows the first colon
FirstColon(t) == CHOOSE i \in 1..Len(t) : t[i] = ":" /\ \A j \in 1..(i - 1) : t[j] # ":"
AfterColon(t) == SubSeq(t, FirstColon(t) + 1, Len(t))

\* the JSON documents of the model, as text and as value
JsonDocs ==
  { <<<<"{", "\"", "p", "a", "t", "h", "\"", ":", "\"", "a", ".", "m", "d", "\"", ",", "\"", "t", "e", "x", "t", "\"", ":", "\"", "x", "\"", "}">>,
      JObj(<<<<"path", JStr(<<"a", ".", "m", "d">>)>>, <<"text", JStr(PlainText(<<"x">>))>>>>)>>,
    <<<<"{", "\"", "p", "a", "t", "h", "\"", ":", "\"", ".", ".", "/", "a", "\"", "}">>,
      JObj(<<<<"path", JStr(<<".", ".", "/", "a">>)>>>>)>>,
    <<<<"{", "\"", "k", "e", "y", "\"", ":", "\"", "k", "\"", ",", "\"", "v", "a", "l", "u", "e", "\"", ":", "\"", "v", "\"", "}">>,
      JObj(<<<<"key", JStr(<<"k">>)>>, <<"value", JStr(<<"v">>)>>>>)>>,
    <<<<"{", "\"", "k", "e", "y", "\"", ":", "\"", " ", "\"", "}">>,
      JObj(<<<<"key", JStr(<<" ">>)>>>>)>>,
    <<<<"{", "}">>,
      JObj(<<>>)>>,
    <<<<"{", "\"", "k", "e", "y", "\"", ":", "\"", "k", "\"", "}">>,
      JObj(<<<<"key", JStr(<<"k">>)>>>>)>>,
    <<<<"{", "\"", "q", "u", "e", "r", "y", "\"", ":", "\"", "K", "\"", "}">>,
      JObj(<<<<"query", JStr(<<"K">>)>>>>)>>,
    <<<<"{", "\"", "q", "u", "e", "r", "y", "\"", ":", "\"", "K", "\"", ",", "\"", "l", "i", "m", "i", "t", "\"", ":", "1", "}">>,
      JObj(<<<<"query", JStr(<<"K">>)>>, <<"limit", JNum(1)>>>>)>> }

\* serde_json::from_str::<Value> on the text of an INPUT line: the documents
\* of JsonDocs parse to their values, any other text is no JSON
parse_input(input) ==
  IF \E d \in JsonDocs : d[1] = input
  THEN [ok |-> TRUE, val |-> (CHOOSE d \in JsonDocs : d[1] = input)[2]]
  ELSE [ok |-> FALSE, val |-> JObj(<<>>)]

RECURSIVE ScanLines(_, _, _)
\* the mutant: a marker that was seen is not replaced by a later one
ScanLineFirst(t, upper, found) ==
  IF StartsWith(upper, S_ACTION)
  THEN (IF found.has_tool THEN found
        ELSE [found EXCEPT !.has_tool = TRUE, !.tool = Trim(AfterColon(t))])
  ELSE IF StartsWith(upper, S_INPUT)
  THEN (IF found.has_input THEN found
        ELSE [found EXCEPT !.has_input = TRUE, !.input = Trim(AfterColon(t))])
  ELSE found

\* the loop of parse_tool_call: the last ACTION line and the last INPUT line
ScanLine(t, upper, found) ==
  IF StartsWith(upper, S_ACTION)
  THEN [found EXCEPT !.has_tool = TRUE, !.tool = Trim(AfterColon(t))]
  ELSE IF StartsWith(upper, S_INPUT)
  THEN [found EXCEPT !.has_input = TRUE, !.input = Trim(AfterColon(t))]
  ELSE found
ScanTrimmed(t, found) == ScanLine(t, ToAsciiUpper(t), found)
ScanLines(ls, i, found) ==
  IF i > Len(ls) THEN found
  ELSE ScanLines(ls, i + 1, ScanTrimmed(Trim(ls[i]), found))

ParsedArgs(tool, input, parsed) ==
  [some |-> TRUE, tool |-> tool,
   args |-> IF parsed.ok THEN parsed.val ELSE JObj(<<<<"raw", JStr(input)>>>>)]
ParseFound(found) ==
  IF ~found.has_tool \/ ~found.has_input
  THEN [some |-> FALSE, tool |-> <<>>, args |-> JObj(<<>>)]
  ELSE ParsedArgs(found.tool, found.input, parse_input(found.input))
parse_tool_call(text) ==
  ParseFound(ScanLines(lines(text), 1,
               [has_tool |-> FALSE, tool |-> <<>>, has_input |-> FALSE, input |-> <<>>]))

(***************************************************************************)
(* agent_system.rs: MemoryStore; the store is its long_term list           *)
(***************************************************************************)
\* MemoryStore.path
memory_path == Join(Join(Join(workspace_root, S_novel), S_cache), S_agent_memory)

MemoryItemJson(it) == JObj(<<<<"key", JStr(it.key)>>, <<"value", JStr(it.value)>>>>)
\* serde_json::to_string_pretty(&MemoryStoreData)
MemoryJson(data) ==
  JObj(<<<<"long_term", JArr([i \in 1..Len(data) |-> MemoryItemJson(data[i])])>>>>)

\* serde_json::from_str::<MemoryStoreData>: every field is required
MemoryItemOk(j) == j.t = "obj" /\ JHasStr(j, "key") /\ JHasStr(j, "value")
MemoryOk(text) ==
  /\ from_str(text).ok
  /\ LET j == from_str(text).val IN
     /\ JHas(j, "long_term") /\ JGet(j, "long_term").t = "arr"
     /\ \A i \in 1..Len(JGet(j, "long_term").v) : MemoryItemOk(JGet(j, "long_term").v[i])
\* the mutant: the last item of the file is not read
MemoryOf_short(text) ==
  LET items == JGet(from_str(text).val, "long_term").v IN
  [i \in 1..(Len(items) - 1) |->
     [key |-> JGet(items[i], "key").v, value |-> JGet(items[i], "value").v]]

MemoryOf(text) ==
  LET items == JGet(from_str(text).val, "long_term").v IN
  [i \in 1..Len(items) |->
     [key |-> JGet(items[i], "key").v, value |-> JGet(items[i], "value").v]]

\* MemoryStore::load
LoadRaw(raw) == IF raw.ok /\ MemoryOk(raw.text) THEN MemoryOf(raw.text) ELSE <<>>
MemoryStore_load(f) == LoadRaw(read_to_string(f, memory_path))

\* MemoryStore::save
SaveWritten(ops, written) ==
  IF ~written.ok
  THEN [ok |-> FALSE, err |-> Msg("write memory failed"), fs |-> written.fs,
        ops |-> ops \cup written.ops]
  ELSE [ok |-> TRUE, err |-> <<>>, fs |-> written.fs, ops |-> ops \cup written.ops]
SaveMade(data, made) ==
  IF ~made.ok
  THEN [ok |-> FALSE, err |-> Msg("create memory dir failed"), fs |-> made.fs,
        ops |-> made.ops]
  ELSE SaveWritten(made.ops, write(made.fs, memory_path, JsonText(MemoryJson(data))))
MemoryStore_save(f, data) == SaveMade(data, create_dir_all(f, parent(memory_path)))

\* the mutant: the item is pushed whether or not the key is there
MemoryStore_upsert_pushed(data, key, value) ==
  Append(data, [key |-> key, value |-> value])

\* MemoryStore::upsert
FirstWithKey(data, key) ==
  CHOOSE i \in 1..Len(data) : data[i].key = key /\ \A j \in 1..(i - 1) : data[j].key # key
MemoryStore_upsert(data, key, value) ==
  IF \E i \in 1..Len(data) : data[i].key = key
  THEN [data EXCEPT ![FirstWithKey(data, key)].value = value]
  ELSE Append(data, [key |-> key, value |-> value])

\* str::contains
Contains(s, q) == \E i \in 0..(Len(s) - Len(q)) : SubSeq(s, i + 1, i + Len(q)) = q

\* Iterator::filter
RECURSIVE Filter(_, _, _)
Filter(data, i, q) ==
  IF i > Len(data) THEN <<>>
  ELSE (IF Contains(ToLower(data[i].key), q) \/ Contains(ToLower(data[i].value), q)
        THEN <<data[i]>> ELSE <<>>) \o Filter(data, i + 1, q)

\* Iterator::take
Take(seq, n) == SubSeq(seq, 1, IF n < Len(seq) THEN n ELSE Len(seq))

\* the mutant: the query and the items are compared as they are spelled
MemoryStore_search_exact(data, query, limit) ==
  Take(SelectSeq(data, LAMBDA it : Contains(it.key, query) \/ Contains(it.value, query)),
       limit)

\* MemoryStore::search
MemoryStore_search(data, query, limit) == Take(Filter(data, 1, ToLower(query)), limit)

RECURSIVE RenderFrom(_, _)
RenderFrom(data, i) ==
  IF i > Len(data) THEN <<>>
  ELSE <<"-", " ">> \o Trim(data[i].key) \o <<":", " ">> \o Trim(data[i].value) \o <<"\n">>
       \o RenderFrom(data, i + 1)

\* MemoryStore::render
MemoryStore_render(data, limit) == Trim(RenderFrom(Take(data, limit), 1))

(***************************************************************************)
(* agent_system.rs: AgentRuntime                                           *)
(***************************************************************************)
\* AgentRuntime::tools
tools == SortedKeys(RegisteredTools \cup {S_memory_upsert, S_memory_search})

max_steps == 6

ChatMessage(role, content) == [role |-> role, content |-> content]

\* the system message run_react opens with
SystemContent(agent_system_prompt, memory_text) ==
  IF memory_text = <<>> THEN <<"react_prompt", Trim(agent_system_prompt), tools>>
  ELSE <<"react_prompt", Trim(agent_system_prompt), tools, "memory", memory_text>>
SystemMessage(agent_system_prompt, data) ==
  ChatMessage("system", SystemContent(agent_system_prompt, MemoryStore_render(data, 50)))

\* messages.iter().rev().find(|m| m.role == "assistant") ... unwrap_or_default()
LastAssistantAt(msgs) ==
  CHOOSE i \in 1..Len(msgs) :
    msgs[i].role = "assistant" /\ \A j \in (i + 1)..Len(msgs) : msgs[j].role # "assistant"
LastAssistant(msgs) ==
  IF \E i \in 1..Len(msgs) : msgs[i].role = "assistant"
  THEN msgs[LastAssistantAt(msgs)].content
  ELSE <<>>

\* what a tool turn of run_react computes: the Result of the call, or the
\* error the '?' on args.query returns from run_react itself; registry_calls
\* counts the calls of ToolRegistry::call, store_call is the MemoryStore
\* method that was called
ToolTurn(ok, val, err, f, ops, data) ==
  [returns |-> FALSE, ok |-> ok, val |-> val, err |-> err, fs |-> f, ops |-> ops,
   memory |-> data, registry_calls |-> 0, store_call |-> <<>>]
ToolReturn(err, f, data) ==
  [returns |-> TRUE, ok |-> FALSE, val |-> JObj(<<>>), err |-> err, fs |-> f, ops |-> {},
   memory |-> data, registry_calls |-> 0, store_call |-> <<>>]

\* the memory_upsert branch
KeyErr(args) ==
  IF ~JHasStr(args, "key") THEN Msg("missing args.key")
  ELSE IF IsBlank(JGet(args, "key").v) THEN Msg("empty args.key")
  ELSE <<>>
ValueErr(args) == IF ~JHasStr(args, "value") THEN Msg("missing args.value") ELSE <<>>
\* let _ = self.memory.save(): the result of the save is dropped
Saved(stored, saved) ==
  [ToolTurn(TRUE, JObj(<<<<"ok", JBool(TRUE)>>>>), <<>>, saved.fs, saved.ops, stored)
     EXCEPT !.store_call = <<"upsert", "save">>]
Upserted(f, stored) == Saved(stored, MemoryStore_save(f, stored))
UpsertChecked(f, data, args, key_err, value_err) ==
  IF key_err # <<>> THEN ToolTurn(FALSE, JObj(<<>>), key_err, f, {}, data)
  ELSE IF value_err # <<>> THEN ToolTurn(FALSE, JObj(<<>>), value_err, f, {}, data)
  ELSE Upserted(f, MemoryStore_upsert(data, JGet(args, "key").v, JGet(args, "value").v))
UpsertTurn(f, data, args) == UpsertChecked(f, data, args, KeyErr(args), ValueErr(args))

\* the memory_search branch
Limit(args) ==
  IF JHas(args, "limit") /\ JGet(args, "limit").t = "num" /\ JGet(args, "limit").v >= 0
  THEN JGet(args, "limit").v ELSE 10
Searched(f, data, limit, hits) ==
  [ToolTurn(TRUE, JArr([i \in 1..Len(hits) |-> MemoryItemJson(hits[i])]), <<>>, f, {}, data)
     EXCEPT !.store_call = <<"search", limit>>]
SearchLimited(f, data, query, limit) ==
  Searched(f, data, limit, MemoryStore_search(data, query, limit))
SearchTurn(f, data, args) ==
  IF ~JHasStr(args, "query") THEN ToolReturn(Msg("missing args.query"), f, data)
  ELSE SearchLimited(f, data, JGet(args, "query").v, Limit(args))

\* the tool call of one turn of run_react
RegistryTurn(data, r) ==
  [ToolTurn(r.ok, r.val, r.err, r.fs, r.ops, data) EXCEPT !.registry_calls = 1]
\* the mutant: every parsed call is delegated to the registry
RunToolDelegated(f, data, parsed, now) ==
  RegistryTurn(data, call(f, parsed.tool, parsed.args, now))
RunTool(f, data, parsed, now) ==
  IF parsed.tool = S_memory_upsert THEN UpsertTurn(f, data, parsed.args)
  ELSE IF parsed.tool = S_memory_search THEN SearchTurn(f, data, parsed.args)
  ELSE RegistryTurn(data, call(f, parsed.tool, parsed.args, now))

\* the mutant: the observation is pushed under a role of its own
ObservationAsTool(turn) ==
  ChatMessage("tool",
    <<"OBSERVATION:", IF turn.ok THEN turn.val ELSE JObj(<<<<"error", JStr(turn.err)>>>>)>>)

\* the observation message of a tool turn
Observation(turn) ==
  ChatMessage("user",
    <<"OBSERVATION:", IF turn.ok THEN turn.val ELSE JObj(<<<<"error", JStr(turn.err)>>>>)>>)

\* a file system from its <<location, node>> pairs
MkFs(pairs) == [l \in {q[1] : q \in pairs} |-> (CHOOSE q \in pairs : q[1] = l)[2]]

NovelLoc == Append(WorkspaceLoc, S_novel)
CacheLoc == Append(NovelLoc, S_cache)
IndexLoc == Append(CacheLoc, S_concept_index)
OutsideLoc == <<<<"a">>>>

\* "/" holds the workspace /ws and, outside it, the file /a
BaseFs ==
  MkFs({<<<<>>, DirNode>>, <<WorkspaceLoc, DirNode>>,
        <<OutsideLoc, FileNode(PlainText(<<"s", "e", "c", "r", "e", "t">>))>>})

NoCall ==
  [run |-> FALSE, tool |-> <<>>, args |-> JObj(<<>>), ok |-> FALSE,
   val |-> JObj(<<>>), err |-> <<>>, ops |-> {}, registry_calls |-> 0, store_call |-> <<>>]
FsIdle == fs = BaseFs /\ ncalls = 0 /\ last_call = NoCall
IndexIdle == index_log = <<>>
\* history: the messages the invocation was given
NoModel == [run |-> FALSE, ok |-> FALSE, out |-> <<>>, err |-> <<>>, history |-> <<>>]
ReactIdle ==
  /\ pc = "idle" /\ step = 0 /\ messages = <<>> /\ result = <<"none">>
  /\ memory = <<>> /\ model_calls = 0 /\ tool_runs = 0 /\ last_model = NoModel
NotParsed == [run |-> FALSE, some |-> FALSE, tool |-> <<>>, args |-> JObj(<<>>)]
ParseIdle == model_text = <<>> /\ parsed_call = NotParsed
NoOperation == [op |-> "none", name |-> <<>>, handler |-> 0, out |-> <<>>, history |-> <<>>]
RegistryIdle == registry = EmptyMap /\ registry_log = NoOperation
RaceIdle == writers = <<>> /\ runtimes = <<>>
StreamIdle == emitted = <<>> /\ stream = <<>>

(***************************************************************************)
(* SpecPath: validate_relative_path on every short path                    *)
(***************************************************************************)
MaxPathLen == 5
PathAlphabet == {"/", ".", "a", "\\"}
PathInputs == StrsUpTo(PathAlphabet, MaxPathLen)

InitPath ==
  /\ relative_path \in PathInputs
  /\ validated = NotValidated
  /\ OutlineIdle /\ FsIdle /\ IndexIdle /\ ReactIdle /\ ParseIdle /\ RegistryIdle /\ RaceIdle /\ StreamIdle

ValidatePath ==
  /\ ~validated.run
  /\ validated' = validate_relative_path(relative_path)
  /\ UNCHANGED <<relative_path, varsOutline, varsFs, varsIndex, varsReact, varsParse, varsRegistry, varsRace, varsStream>>

NextPath == ValidatePath

SpecPath == InitPath /\ [][NextPath]_vars

\* the pieces of the path between its separators
Segments(p) == Split(p, "/")
HasParentSegment(p) == \E i \in 1..Len(Segments(p)) : Segments(p)[i] = <<".", ".">>

\* C4: validate_relative_path accepts a path, returning it unchanged, exactly
\* when it is not absolute and each of its components is a normal segment or
\* the current-directory segment; a path with a ".." piece or a leading root
\* is rejected with an error.
C4_AcceptsExactlySafePaths ==
  validated.run =>
    /\ validated.ok <=>
         /\ ~is_absolute(relative_path)
         /\ \A i \in 1..Len(components(relative_path)) :
              components(relative_path)[i].kind \in {"Normal", "CurDir"}
    /\ validated.ok => validated.path = relative_path
    /\ (HasParentSegment(relative_path) \/ StartsWith(relative_path, <<"/">>))
         => (~validated.ok /\ validated.err # <<>>)

C4_Witness ==
  /\ validated.run /\ validated.ok
  /\ relative_path = <<".", "/", "a", "/", "a">>

(***************************************************************************)
(* SpecOutline: validate_outline on every short pair of outlines           *)
(***************************************************************************)
MaxEvents == 3

Bob == <<"B", "o", "b">>
Al == <<"A", "l">>
T1 == <<"T", "1">>
T2 == <<"T", "2">>
Ev(id, time, location, characters) ==
  [id |-> id, time |-> time, location |-> location, characters |-> characters]

\* the events the outlines are made of: ids "a", "b", empty and blank; times
\* T1, T2, empty and blank; locations X, Y, empty and blank; no, one and two
\* characters
OutlineEventInputs ==
  { Ev(<<"a">>, T1, <<"X">>, <<Bob>>),
    Ev(<<"b">>, T1, <<"Y">>, <<Bob>>),
    Ev(<<>>, T1, <<" ">>, <<Bob>>),
    Ev(<<" ">>, T2, <<"Y">>, <<Bob>>),
    Ev(<<"a">>, T1, <<"Y">>, <<Al>>),
    Ev(<<>>, T1, <<"X">>, <<Al, Bob>>),
    Ev(<<" ">>, <<" ">>, <<"X">>, <<Bob>>),
    Ev(<<"b">>, T1, <<"X">>, <<>>),
    Ev(<<"a">>, <<>>, <<>>, <<>>),
    Ev(<<>>, T1, <<>>, <<Bob>>) }

\* the JSON of an event; a field that holds its default is left out
EventJson(ev) ==
  JObj((IF ev.id # <<>> THEN <<<<"id", JStr(ev.id)>>>> ELSE <<>>)
       \o (IF ev.time # <<>> THEN <<<<"time", JStr(ev.time)>>>> ELSE <<>>)
       \o (IF ev.location # <<>> THEN <<<<"location", JStr(ev.location)>>>> ELSE <<>>)
       \o (IF ev.characters # <<>>
           THEN <<<<"characters",
                    JArr([i \in 1..Len(ev.characters) |-> JStr(ev.characters[i])])>>>>
           ELSE <<>>))

\* an event no Event parses from: its id is a number
BadEventJson == JObj(<<<<"id", JNum(1)>>>>)

\* the text of an outline in one of its forms
OutlineText(form, events) ==
  CASE form = "blank" -> PlainText(<<" ", "\n">>)
    [] form = "garbage" -> PlainText(<<"x">>)
    [] form = "badjson" ->
         JsonText(JObj(<<<<"events",
           JArr([i \in 1..Len(events) |-> EventJson(events[i])] \o <<BadEventJson>>)>>>>))
    [] form = "json" ->
         JsonText(JObj(<<<<"events",
           JArr([i \in 1..Len(events) |-> EventJson(events[i])])>>>>))

InitOutline ==
  /\ OutlineIdle
  /\ PathIdle /\ FsIdle /\ IndexIdle /\ ReactIdle /\ ParseIdle /\ RegistryIdle /\ RaceIdle /\ StreamIdle

AddExisting(ev) ==
  /\ ~outline_result.run
  /\ Len(existing_events) + Len(new_events) < MaxEvents
  /\ new_events = <<>>
  /\ existing_events' = Append(existing_events, ev)
  /\ UNCHANGED <<existing_form, new_form, new_events, outline_result, varsPath, varsFs, varsIndex, varsReact, varsParse, varsRegistry, varsRace, varsStream>>

AddIncoming(ev) ==
  /\ ~outline_result.run
  /\ Len(existing_events) + Len(new_events) < MaxEvents
  /\ new_events' = Append(new_events, ev)
  /\ UNCHANGED <<existing_form, new_form, existing_events, outline_result, varsPath, varsFs, varsIndex, varsReact, varsParse, varsRegistry, varsRace, varsStream>>

ValidateOutline(ef, nf) ==
  /\ ~outline_result.run
  /\ existing_form' = ef
  /\ new_form' = nf
  /\ outline_result' =
       validate_outline(OutlineText(ef, existing_events), OutlineText(nf, new_events))
  /\ UNCHANGED <<existing_events, new_events, varsPath, varsFs, varsIndex, varsReact, varsParse, varsRegistry, varsRace, varsStream>>

NextOutline ==
  \/ \E ev \in OutlineEventInputs : AddExisting(ev)
  \/ \E ev \in OutlineEventInputs : AddIncoming(ev)
  \/ \E ef \in {"blank", "garbage", "badjson", "json"}, nf \in {"json", "badjson", "garbage"} :
       ValidateOutline(ef, nf)

SpecOutline == InitOutline /\ [][NextOutline]_vars

\* what the two inputs hold, read off the inputs: an existing outline that is
\* blank or does not parse holds no events
Union ==
  (IF existing_form = "json" THEN existing_events ELSE <<>>) \o new_events

Validated == outline_result.run /\ new_form = "json"

\* the lines of the result that report a duplicate id / a timeline conflict
Lines(tag) ==
  {outline_result.err[i] : i \in {k \in 1..Len(outline_result.err) :
                                     outline_result.err[k][1] = tag}}
CountLines(tag) ==
  Cardinality({k \in 1..Len(outline_result.err) : outline_result.err[k][1] = tag})

\* the positions of the union whose non-blank id stands at an earlier position
Repeats ==
  {j \in 1..Len(Union) :
     ~IsBlank(Union[j].id) /\ \E i \in 1..(j - 1) : Union[i].id = Union[j].id}

\* C9: validate_outline scans existing events followed by incoming events;
\* every position whose non-blank id repeats an id seen earlier yields one
\* duplicate-id conflict naming the 1-based positions of an earlier occurrence
\* and of the repeat, and events with a blank id yield and contribute to none.
C9_DuplicateIds ==
  Validated =>
    /\ \A j \in Repeats :
         \E i \in 1..(j - 1) :
           /\ Union[i].id = Union[j].id
           /\ DupIdMsg(Union[j].id, i, j) \in Lines("duplicate id")
    /\ \A m \in Lines("duplicate id") :
         /\ ~IsBlank(m[2])
         /\ m[4] \in Repeats
         /\ m[3] \in 1..(m[4] - 1)
         /\ Union[m[3]].id = m[2] /\ Union[m[4]].id = m[2]
    /\ CountLines("duplicate id") = Cardinality(Repeats)

C9_Witness ==
  /\ Validated
  /\ existing_form = "json" /\ existing_events # <<>> /\ new_events # <<>>
  /\ Cardinality(Repeats) = 2
  /\ CountLines("duplicate id") = 2

\* the events that make a claim about where ch is at time: ch is one of the
\* characters, time and location are not blank
Claims(ch, time) ==
  {i \in 1..Len(Union) :
     /\ \E k \in 1..Len(Union[i].characters) : Union[i].characters[k] = ch
     /\ Union[i].time = time /\ ~IsBlank(time)
     /\ ~IsBlank(Union[i].location)}

FirstClaim(ch, time) ==
  CHOOSE i \in Claims(ch, time) : \A k \in Claims(ch, time) : i <= k

Characters == {Bob, Al}
Times == {Union[i].time : i \in 1..Len(Union)}

\* C10: per character and time, the first event with that character, a
\* non-blank time and a non-blank location records the location; every later
\* event with the same character, the same time string and another non-blank
\* location yields a timeline conflict naming the character, the time, the
\* recorded and the new location; nothing else yields one.
C10_TimelineConflicts ==
  Validated =>
    /\ \A ch \in Characters : \A j \in 1..Len(Union) :
         (/\ j \in Claims(ch, Union[j].time)
          /\ j > FirstClaim(ch, Union[j].time)
          /\ Union[j].location # Union[FirstClaim(ch, Union[j].time)].location)
         => TimelineMsg(ch, Union[j].time,
                        Union[FirstClaim(ch, Union[j].time)].location,
                        Union[j].location) \in Lines("timeline conflict")
    /\ \A m \in Lines("timeline conflict") :
         \E j \in 1..Len(Union) :
           /\ j \in Claims(m[2], m[3])
           /\ j > FirstClaim(m[2], m[3])
           /\ m[4] = Union[FirstClaim(m[2], m[3])].location
           /\ m[5] = Union[j].location
           /\ m[5] # m[4]

C10_Witness ==
  /\ Validated
  /\ Len(Union) = 3
  /\ Union[1].characters = <<Bob>> /\ Union[1].time = T1 /\ IsBlank(Union[1].location)
  /\ TimelineMsg(Bob, T1, <<"X">>, <<"Y">>) \in Lines("timeline conflict")

\* the nearest earlier position that holds the id of position j
EarlierOccurrence(j) ==
  CHOOSE i \in 1..(j - 1) :
    /\ Union[i].id = Union[j].id
    /\ \A k \in (i + 1)..(j - 1) : Union[k].id # Union[j].id

\* the duplicate-id conflicts of the positions up to j, in position order
RECURSIVE DuplicateLines(_)
DuplicateLines(j) ==
  IF j = 0 THEN <<>>
  ELSE DuplicateLines(j - 1)
         \o (IF j \in Repeats
             THEN <<DupIdMsg(Union[j].id, EarlierOccurrence(j), j)>> ELSE <<>>)

\* the k-th character of event j contradicts the location recorded for it
Contradicts(j, k) ==
  LET ch == Union[j].characters[k] IN
  /\ j \in Claims(ch, Union[j].time)
  /\ j > FirstClaim(ch, Union[j].time)
  /\ Union[j].location # Union[FirstClaim(ch, Union[j].time)].location

\* the timeline conflicts of the first k characters of event j, in the order
\* of its character list
RECURSIVE CharacterLines(_, _)
CharacterLines(j, k) ==
  IF k = 0 THEN <<>>
  ELSE CharacterLines(j, k - 1)
         \o (IF Contradicts(j, k)
             THEN <<TimelineMsg(Union[j].characters[k], Union[j].time,
                      Union[FirstClaim(Union[j].characters[k], Union[j].time)].location,
                      Union[j].location)>>
             ELSE <<>>)

\* the timeline conflicts of the events up to j, in position order
RECURSIVE TimelineLines(_)
TimelineLines(j) ==
  IF j = 0 THEN <<>>
  ELSE TimelineLines(j - 1) \o CharacterLines(j, Len(Union[j].characters))

\* C11: validate_outline succeeds exactly when the union has neither a
\* duplicate-id nor a timeline conflict; otherwise its error holds every
\* conflict, the duplicate ids in position order and then the timeline
\* conflicts in position order and, within an event, in the order of its
\* characters: the result is a function of the two input lists.
C11_AllConflictsInOrder ==
  Validated =>
    /\ outline_result.err = DuplicateLines(Len(Union)) \o TimelineLines(Len(Union))
    /\ outline_result.ok <=>
         /\ Repeats = {}
         /\ \A j \in 1..Len(Union) : \A k \in 1..Len(Union[j].characters) : ~Contradicts(j, k)
    /\ outline_result.ok <=> outline_result.err = <<>>

C11_Witness ==
  /\ Validated /\ ~outline_result.ok
  /\ existing_form = "json" /\ existing_events # <<>> /\ new_events # <<>>
  /\ CountLines("duplicate id") = 1
  /\ CountLines("timeline conflict") = 2
  /\ Len(outline_result.err) = 3

(***************************************************************************)
(* SpecIndex: a single writer calls update_concept_index                   *)
(***************************************************************************)
MaxIndexCalls == 3
MaxNow == 2

S_concept_a_md == <<"c", "o", "n", "c", "e", "p", "t", "/", "a", ".", "m", "d">>
S_concept_b_md == <<"c", "o", "n", "c", "e", "p", "t", "/", "b", ".", "m", "d">>
IndexPathInputs == {S_concept_a_md, S_concept_b_md}
IndexContentInputs == {PlainText(<<"x">>), PlainText(<<"y">>)}

\* an index written earlier: revision 7, concept/a.md holding "x" since then
EarlierIndex ==
  [revision |-> 7, updated_at |-> ToDecimal(1),
   files |-> MapPut(EmptyMap, S_concept_a_md,
                    [hash |-> Hash(PlainText(<<"x">>)), revision |-> 7,
                     updated_at |-> ToDecimal(1)])]

CacheDirs == {<<NovelLoc, DirNode>>, <<CacheLoc, DirNode>>}
WithNodes(f, pairs) == MkFs({<<l, f[l]>> : l \in DOMAIN f \ {q[1] : q \in pairs}} \cup pairs)

\* the index file is missing, holds an index, holds no JSON, holds JSON that
\* is no index, is a directory, or cannot be created (.novel is a file)
IndexInitFs ==
  { BaseFs,
    WithNodes(BaseFs, CacheDirs \cup {<<IndexLoc, FileNode(JsonText(IndexJson(EarlierIndex)))>>}),
    WithNodes(BaseFs, CacheDirs \cup {<<IndexLoc, FileNode(PlainText(<<"x">>))>>}),
    WithNodes(BaseFs, CacheDirs \cup {<<IndexLoc, FileNode(JsonText(JObj(<<<<"revision", JNum(9)>>>>)))>>}),
    WithNodes(BaseFs, CacheDirs \cup {<<IndexLoc, DirNode>>}),
    WithNodes(BaseFs, {<<NovelLoc, FileNode(PlainText(<<>>))>>}) }

InitIndex ==
  /\ fs \in IndexInitFs
  /\ ncalls = 0
  /\ last_call = NoCall
  /\ index_log = <<>>
  /\ PathIdle /\ OutlineIdle /\ ReactIdle /\ ParseIdle /\ RegistryIdle /\ RaceIdle /\ StreamIdle

\* the bytes at the index path
IndexFile(f) == IF IsFileAt(f, IndexLoc) THEN <<"file", f[IndexLoc].data>> ELSE <<"none">>

LastTwo(log) == IF Len(log) > 2 THEN SubSeq(log, Len(log) - 1, Len(log)) ELSE log

UpdateConceptIndex(rel_path, content, now) ==
  /\ ncalls < MaxIndexCalls
  /\ \E r \in {update_concept_index(fs, rel_path, content, now)} :
     /\ fs' = r.fs
     /\ index_log' = LastTwo(Append(index_log,
          [rel_path |-> rel_path, content |-> content, ok |-> r.ok, ops |-> r.ops,
           before |-> IndexFile(fs), after |-> IndexFile(r.fs)]))
  /\ ncalls' = ncalls + 1
  /\ UNCHANGED <<last_call, varsPath, varsOutline, varsReact, varsParse, varsRegistry, varsRace, varsStream>>

NextIndex ==
  \E rel_path \in IndexPathInputs, content \in IndexContentInputs, now \in 1..MaxNow :
    UpdateConceptIndex(rel_path, content, now)

SpecIndex == InitIndex /\ [][NextIndex]_vars

\* the index a file holds; none when the file is missing or is no index
HoldsIndex(file) == file[1] = "file" /\ IndexOk(file[2])
\* the persisted global revision: 0 when no index is persisted
PersistedRevision(file) ==
  IF HoldsIndex(file) THEN JGet(from_str(file[2]).val, "revision").v ELSE 0
\* the hash the persisted index stores for a path
HasEntry(file, rel_path) ==
  HoldsIndex(file) /\ JHas(JGet(from_str(file[2]).val, "files"), rel_path)
StoredHash(file, rel_path) ==
  JGet(JGet(JGet(from_str(file[2]).val, "files"), rel_path), "hash").v

Last == index_log[Len(index_log)]
Previous == index_log[Len(index_log) - 1]

\* C7: two successive calls with the same path and the same content bump the
\* revision once at most, and the second leaves the index file byte for byte
\* as the first left it.
C7_Idempotent ==
  (/\ Len(index_log) = 2
   /\ Previous.ok /\ Last.ok
   /\ Previous.rel_path = Last.rel_path /\ Previous.content = Last.content)
  => /\ Last.after = Previous.after
     /\ Last.after[1] = "file"
     /\ PersistedRevision(Last.after) = PersistedRevision(Previous.after)
     /\ PersistedRevision(Last.after) <= PersistedRevision(Previous.before) + 1

C7_Witness ==
  /\ Len(index_log) = 2
  /\ Previous.ok /\ Last.ok
  /\ Previous.rel_path = Last.rel_path /\ Previous.content = Last.content
  /\ PersistedRevision(Previous.after) = PersistedRevision(Previous.before) + 1
  /\ PersistedRevision(Previous.before) = 1

\* C8: the persisted revision never decreases; a call that returns Ok raises
\* it by exactly 1 when the path has no entry or the stored hash differs from
\* the hash of the new content, and leaves it as it is otherwise.
C8_RevisionSteps ==
  index_log # <<>> =>
    /\ PersistedRevision(Last.after) >= PersistedRevision(Last.before)
    /\ Last.ok =>
         PersistedRevision(Last.after) =
           IF \/ ~HasEntry(Last.before, Last.rel_path)
              \/ StoredHash(Last.before, Last.rel_path) # Hash(Last.content)
           THEN PersistedRevision(Last.before) + 1
           ELSE PersistedRevision(Last.before)

C8_Witness ==
  /\ Len(index_log) = 2
  /\ Previous.ok /\ Last.ok
  /\ PersistedRevision(Previous.before) = 7
  /\ PersistedRevision(Previous.after) = 7
  /\ PersistedRevision(Last.after) = 8

\* the index file is missing, or is a file that holds no index
MissingOrUnparsable(f) ==
  \/ IndexLoc \notin DOMAIN f
  \/ IsFileAt(f, IndexLoc) /\ ~HoldsIndex(IndexFile(f))
\* the folders of the index file are there or can be made
CacheUsable(f) ==
  /\ NovelLoc \in DOMAIN f => IsDirAt(f, NovelLoc)
  /\ CacheLoc \in DOMAIN f => IsDirAt(f, CacheLoc)
\* the paths of the entries of the persisted index
PersistedPaths(file) ==
  {JGet(from_str(file[2]).val, "files").v[i][1] :
     i \in 1..Len(JGet(from_str(file[2]).val, "files").v)}
EntryRevision(file, rel_path) ==
  JGet(JGet(JGet(from_str(file[2]).val, "files"), rel_path), "revision").v

C22_Step ==
  (ncalls' = ncalls + 1 /\ MissingOrUnparsable(fs) /\ CacheUsable(fs)) =>
    /\ Last'.ok
    /\ Last'.after = IndexFile(fs')
    /\ HoldsIndex(Last'.after)
    /\ PersistedRevision(Last'.after) = 1
    /\ PersistedPaths(Last'.after) = {Last'.rel_path}
    /\ EntryRevision(Last'.after, Last'.rel_path) = 1
    /\ StoredHash(Last'.after, Last'.rel_path) = Hash(Last'.content)

\* C22: a call of update_concept_index in a workspace whose index file is
\* missing or unparsable, and whose cache folder is there or can be made,
\* returns Ok, and the index file then holds revision 1 and exactly one
\* entry, for the written path, with revision 1.
C22_EmptyDefault == [][C22_Step]_vars

\* the call found a file that holds no index and replaced it
C22_Witness ==
  /\ Len(index_log) = 1
  /\ Last.before[1] = "file" /\ ~HoldsIndex(Last.before)
  /\ Last.ok
  /\ PersistedRevision(Last.after) = 1
  /\ PersistedPaths(Last.after) = {S_concept_b_md}

C23_Step ==
  (/\ ncalls' = ncalls + 1
   /\ HasEntry(IndexFile(fs), Last'.rel_path)
   /\ StoredHash(IndexFile(fs), Last'.rel_path) = Hash(Last'.content)) =>
    /\ IndexFile(fs') = IndexFile(fs)
    /\ Op("write", IndexLoc) \notin Last'.ops

\* C23: a call whose content hash equals the hash stored for its path
\* changes nothing: the index file keeps its revision, its timestamps and
\* every byte, and no write of the index file is issued.
C23_SameHashNoWrite == [][C23_Step]_vars

(***************************************************************************)
(* SpecIndexFresh: the calls of one writer in a workspace that starts      *)
(* without an index file                                                   *)
(***************************************************************************)
InitIndexFresh ==
  /\ fs = BaseFs
  /\ ncalls = 0
  /\ last_call = NoCall
  /\ index_log = <<>>
  /\ PathIdle /\ OutlineIdle /\ ReactIdle /\ ParseIdle /\ RegistryIdle /\ RaceIdle /\ StreamIdle

SpecIndexFresh == InitIndexFresh /\ [][NextIndex]_vars

\* C25: in every index the calls persist, each entry's revision is between
\* 1 and the global revision, entries of different paths have different
\* revisions, and the global revision is the largest entry revision.
C25_EntryRevisions ==
  HoldsIndex(IndexFile(fs)) =>
    /\ \A p \in PersistedPaths(IndexFile(fs)) :
         /\ EntryRevision(IndexFile(fs), p) >= 1
         /\ EntryRevision(IndexFile(fs), p) <= PersistedRevision(IndexFile(fs))
    /\ \A p, q \in PersistedPaths(IndexFile(fs)) :
         p # q => EntryRevision(IndexFile(fs), p) # EntryRevision(IndexFile(fs), q)
    /\ \E p \in PersistedPaths(IndexFile(fs)) :
         EntryRevision(IndexFile(fs), p) = PersistedRevision(IndexFile(fs))

\* three calls changed an entry: concept/a.md, concept/b.md, concept/a.md
C25_Witness ==
  /\ HoldsIndex(IndexFile(fs))
  /\ PersistedPaths(IndexFile(fs)) = {S_concept_a_md, S_concept_b_md}
  /\ EntryRevision(IndexFile(fs), S_concept_a_md) = 3
  /\ EntryRevision(IndexFile(fs), S_concept_b_md) = 2
  /\ PersistedRevision(IndexFile(fs)) = 3

(***************************************************************************)
(* SpecIndexRace: update_concept_index calls of two writers on one         *)
(* workspace; the load of the index file and the write back are two steps  *)
(***************************************************************************)
Writers == {1, 2}

\* calls: the state of each writer's call; written: per path, the content of
\* the last call that returned Ok
IdleWriter == [at |-> "idle", rel_path |-> <<>>, content |-> PlainText(<<>>),
               loaded |-> [index |-> DefaultIndex, ops |-> {}]]
NoWriters == [calls |-> [w \in Writers |-> IdleWriter], written |-> EmptyMap]

InitIndexRace ==
  /\ fs \in {BaseFs,
             WithNodes(BaseFs, CacheDirs \cup
               {<<IndexLoc, FileNode(JsonText(IndexJson(EarlierIndex)))>>})}
  /\ ncalls = 0 /\ last_call = NoCall
  /\ index_log = <<>>
  /\ writers = NoWriters /\ runtimes = <<>>
  /\ PathIdle /\ OutlineIdle /\ ReactIdle /\ ParseIdle /\ RegistryIdle /\ StreamIdle

\* commands.rs:1176-1182: the writer reads the index file
LoadsIndex(w, rel_path, content) ==
  /\ ncalls < MaxIndexCalls
  /\ writers.calls[w].at = "idle"
  /\ writers' = [writers EXCEPT !.calls[w] =
                   [at |-> "loaded", rel_path |-> rel_path, content |-> content,
                    loaded |-> LoadIndex(fs)]]
  /\ ncalls' = ncalls + 1
  /\ UNCHANGED <<fs, last_call, index_log, runtimes, varsPath, varsOutline, varsReact,
                 varsParse, varsRegistry, varsStream>>

\* commands.rs:1184-1209: the writer bumps the index it read and writes it
WritesIndex(w, now) ==
  /\ writers.calls[w].at = "loaded"
  /\ \E r \in {IndexLoaded(fs, writers.calls[w].rel_path, writers.calls[w].content, now,
                           writers.calls[w].loaded)} :
       /\ fs' = r.fs
       /\ writers' = [calls |-> [writers.calls EXCEPT ![w] = IdleWriter],
                      written |-> IF r.ok
                                  THEN MapPut(writers.written, writers.calls[w].rel_path,
                                              writers.calls[w].content)
                                  ELSE writers.written]
  /\ UNCHANGED <<ncalls, last_call, index_log, runtimes, varsPath, varsOutline, varsReact,
                 varsParse, varsRegistry, varsStream>>

NextIndexRace ==
  \/ \E w \in Writers, rel_path \in IndexPathInputs, content \in IndexContentInputs :
       LoadsIndex(w, rel_path, content)
  \/ \E w \in Writers, now \in 1..MaxNow : WritesIndex(w, now)

SpecIndexRace == InitIndexRace /\ [][NextIndexRace]_vars

AllReturned == \A w \in Writers : writers.calls[w].at = "idle"
EntriesKept ==
  \A p \in DOMAIN writers.written :
    /\ HasEntry(IndexFile(fs), p)
    /\ StoredHash(IndexFile(fs), p) = Hash(writers.written[p])

C24_Step ==
  /\ PersistedRevision(IndexFile(fs')) >= PersistedRevision(IndexFile(fs))
  /\ AllReturned' => EntriesKept'

\* C24: when the calls of two writers interleave, the persisted revision
\* never decreases, and once every call has returned the index holds, for
\* every path a successful call wrote, an entry with the hash of the last
\* content written for it.
C24_RaceKeepsEntries == [][C24_Step]_vars

(***************************************************************************)
(* SpecFs: sequences of calls of the registered file tools                 *)
(***************************************************************************)
MaxFsCalls == 2

S_concept == <<"c", "o", "n", "c", "e", "p", "t">>
S_outline == <<"o", "u", "t", "l", "i", "n", "e">>
S_stories == <<"s", "t", "o", "r", "i", "e", "s">>
S_a_md == <<"a", ".", "m", "d">>

\* the path arguments: absolute, with a parent component, blank, the
\* workspace itself, inside and outside the reserved folders, with and
\* without the .md extension, with a backslash, with a missing parent
FsPathInputs ==
  { <<"/", "a">>,
    <<".", ".", "/", "a">>,
    <<>>,
    <<".">>,
    <<"a", ".", ".", "m", "d">>,
    <<"c", "o", "n", "c", "e", "p", "t", "/", "a", ".", "m", "d">>,
    <<"c", "o", "n", "c", "e", "p", "t", "/", "a", ".", "t", "x", "t">>,
    <<".", "/", "c", "o", "n", "c", "e", "p", "t", "/", "a", ".", "t", "x", "t">>,
    <<"c", "o", "n", "c", "e", "p", "t", "\\", "a", ".", "t", "x", "t">>,
    <<"s", "t", "o", "r", "i", "e", "s", "/", "a", ".", "t", "x", "t">>,
    <<"o", "u", "t", "l", "i", "n", "e", "/", "a", ".", "M", "D">>,
    <<"d", "/", "a", ".", "m", "d">> }
FsTextInputs == {PlainText(<<"x">>), PlainText(<<"y">>)}

PathArgs(p) == JObj(<<<<"path", JStr(p)>>>>)
WriteArgs(p, t) == JObj(<<<<"path", JStr(p)>>, <<"text", JStr(t)>>>>)
FsArgInputs == {JObj(<<>>)} \cup {PathArgs(p) : p \in FsPathInputs}
FsWriteArgInputs ==
  FsArgInputs \cup {WriteArgs(p, t) : p \in FsPathInputs, t \in FsTextInputs}

\* a workspace with the three reserved folders and the document concept/a.md
WorkFs ==
  WithNodes(BaseFs,
    { <<Append(WorkspaceLoc, S_concept), DirNode>>,
      <<Append(WorkspaceLoc, S_outline), DirNode>>,
      <<Append(WorkspaceLoc, S_stories), DirNode>>,
      <<Append(Append(WorkspaceLoc, S_concept), S_a_md), FileNode(PlainText(<<"x">>))>> })

InitFs ==
  /\ fs \in {BaseFs, WorkFs}
  /\ ncalls = 0
  /\ last_call = NoCall
  /\ PathIdle /\ OutlineIdle /\ IndexIdle /\ ReactIdle /\ ParseIdle /\ RegistryIdle /\ RaceIdle /\ StreamIdle

FsToolInputs == RegisteredTools \cup {<<"n", "o", "p", "e">>}

\* one call through the registry; only fs_write_text takes a text and reads
\* the clock
ToolCall(name, args, now) ==
  /\ ncalls < MaxFsCalls
  /\ name # S_fs_write_text => (~JHas(args, "text") /\ now = 1)
  /\ \E r \in {call(fs, name, args, now)} :
     /\ fs' = r.fs
     /\ last_call' = [run |-> TRUE, tool |-> name, args |-> args, ok |-> r.ok,
                      val |-> r.val, err |-> r.err, ops |-> r.ops,
                      registry_calls |-> 1, store_call |-> <<>>]
  /\ ncalls' = ncalls + 1
  /\ UNCHANGED <<varsPath, varsOutline, varsIndex, varsReact, varsParse, varsRegistry, varsRace, varsStream>>

NextFs ==
  \E name \in FsToolInputs, args \in FsWriteArgInputs, now \in 1..MaxNow :
    ToolCall(name, args, now)

SpecFs == InitFs /\ [][NextFs]_vars

\* a location in the workspace: the root itself or below it
Inside(loc) ==
  Len(loc) >= Len(WorkspaceLoc) /\ SubSeq(loc, 1, Len(WorkspaceLoc)) = WorkspaceLoc
\* a path that is absolute or has a '..' segment
Escaping(p) == is_absolute(p) \/ HasParentSegment(p)

\* C5: a file tool called with a path that is absolute or has a '..' segment
\* returns an error without any file system call and leaves the file system
\* as it was; no call of a file tool reads, creates or changes a location
\* outside the workspace root (the existence check of the directory that
\* holds the root, which writing to "." makes, reads nothing of it).
C5_Step ==
  last_call'.run =>
    /\ (JHasStr(last_call'.args, "path") /\ Escaping(JGet(last_call'.args, "path").v))
         => /\ ~last_call'.ok /\ last_call'.err # <<>>
            /\ last_call'.ops = {}
            /\ fs' = fs
    /\ \A op \in last_call'.ops :
         Inside(op[2]) \/ op = Op("stat", ParentLoc(WorkspaceLoc))
    /\ \A loc \in DOMAIN fs \cup DOMAIN fs' :
         ~Inside(loc) => (loc \in DOMAIN fs /\ loc \in DOMAIN fs' /\ fs'[loc] = fs[loc])

\* C5: every step of a file tool keeps the sandbox (C5_Step, above).
C5_Sandbox == [][C5_Step]_vars

C5_Witness ==
  /\ ncalls = 2
  /\ last_call.tool = S_fs_read_text
  /\ JHasStr(last_call.args, "path")
  /\ JGet(last_call.args, "path").v = <<".", ".", "/", "a">>
  /\ ~last_call.ok /\ last_call.ops = {}
  /\ fs # BaseFs /\ fs # WorkFs

ReservedLocs ==
  {Append(WorkspaceLoc, S_concept), Append(WorkspaceLoc, S_outline),
   Append(WorkspaceLoc, S_stories)}

\* C6: no file under the workspace's folders concept/, outline/ or stories/
\* has a name that does not end in .md (in any letter case).
C6_OnlyMdUnderReserved ==
  \A loc \in DOMAIN fs :
    (Len(loc) >= 3 /\ SubSeq(loc, 1, 2) \in ReservedLocs /\ IsFileAt(fs, loc))
      => IsMd(loc[Len(loc)])

(***************************************************************************)
(* SpecOutlineFile: writes that name the outline file, through the tool    *)
(* fs_write_text and through the command write_text                        *)
(***************************************************************************)
MaxOutlineWrites == 2

S_outline_file == <<"o", "u", "t", "l", "i", "n", "e", ".", "j", "s", "o", "n">>
S_notes == <<"n", "o", "t", "e", "s", ".", "t", "x", "t">>
OutlineLoc == Append(CacheLoc, S_outline_file)

\* the outline path as the handlers spell it, with a leading "./", with a
\* "." in the middle, with backslashes, and the path of another file
OutlinePathInputs ==
  { S_outline_json,
    <<".", "/">> \o S_outline_json,
    S_novel \o <<"/">> \o S_cache \o <<"/", ".", "/">> \o S_outline_file,
    S_novel \o <<"\\">> \o S_cache \o <<"\\">> \o S_outline_file,
    S_notes }

EvA == Ev(<<"a">>, T1, <<"X">>, <<Bob>>)

\* texts that are no JSON, that are JSON but no outline, and outlines: the
\* event on disk again, an event that contradicts it, one that does not, and
\* two events that contradict each other
OutlineTextInputs ==
  { PlainText(<<"x">>),
    OutlineText("json", <<Ev(<<"d">>, T2, <<"X">>, <<Bob>>), Ev(<<"e">>, T2, <<"Y">>, <<Bob>>)>>),
    OutlineText("badjson", <<>>),
    OutlineText("json", <<EvA>>),
    OutlineText("json", <<Ev(<<"b">>, T1, <<"Y">>, <<Bob>>)>>),
    OutlineText("json", <<Ev(<<"c">>, T2, <<"X">>, <<Al>>)>>) }

\* the outline file is missing, blank, no JSON or holds the event EvA; or
\* its folder is missing
OutlineInitFs ==
  { WithNodes(BaseFs, CacheDirs),
    WithNodes(BaseFs, CacheDirs \cup {<<OutlineLoc, FileNode(PlainText(<<" ">>))>>}),
    WithNodes(BaseFs, CacheDirs \cup {<<OutlineLoc, FileNode(PlainText(<<"x">>))>>}),
    WithNodes(BaseFs, CacheDirs \cup {<<OutlineLoc, FileNode(OutlineText("json", <<EvA>>))>>}),
    BaseFs }

InitOutlineFile ==
  /\ fs \in OutlineInitFs
  /\ ncalls = 0
  /\ last_call = NoCall
  /\ PathIdle /\ OutlineIdle /\ IndexIdle /\ ReactIdle /\ ParseIdle /\ RegistryIdle /\ RaceIdle /\ StreamIdle

\* fs_write_text, called through the registry
ToolWritesOutline(p, t) ==
  /\ ncalls < MaxOutlineWrites
  /\ \E r \in {call(fs, S_fs_write_text, WriteArgs(p, t), 1)} :
     /\ fs' = r.fs
     /\ last_call' = [run |-> TRUE, tool |-> S_fs_write_text, args |-> WriteArgs(p, t),
                      ok |-> r.ok, val |-> r.val, err |-> r.err, ops |-> r.ops,
                      registry_calls |-> 1, store_call |-> <<>>]
  /\ ncalls' = ncalls + 1
  /\ UNCHANGED <<varsPath, varsOutline, varsIndex, varsReact, varsParse, varsRegistry, varsRace, varsStream>>

\* the command write_text
CommandWritesOutline(p, t) ==
  /\ ncalls < MaxOutlineWrites
  /\ \E r \in {write_text(fs, p, t, 1)} :
     /\ fs' = r.fs
     /\ last_call' = [run |-> TRUE, tool |-> S_write_text, args |-> WriteArgs(p, t),
                      ok |-> r.ok, val |-> r.val, err |-> r.err, ops |-> r.ops,
                      registry_calls |-> 0, store_call |-> <<>>]
  /\ ncalls' = ncalls + 1
  /\ UNCHANGED <<varsPath, varsOutline, varsIndex, varsReact, varsParse, varsRegistry, varsRace, varsStream>>

NextOutlineFile ==
  \/ \E p \in OutlinePathInputs, t \in OutlineTextInputs : ToolWritesOutline(p, t)
  \/ \E p \in OutlinePathInputs, t \in OutlineTextInputs : CommandWritesOutline(p, t)

SpecOutlineFile == InitOutlineFile /\ [][NextOutlineFile]_vars

\* the events on disk: none when the file is missing, blank or unparsable
DiskEvents(f) ==
  IF IsFileAt(f, OutlineLoc) /\ ~TextIsBlank(f[OutlineLoc].data) /\ OutlineOk(f[OutlineLoc].data)
  THEN OutlineEvents(f[OutlineLoc].data) ELSE <<>>

\* a list of events holds a duplicate-id or a timeline conflict
Conflicting(events) ==
  ScanTimeline(events, 1,
    [per_character |-> EmptyMap, conflicts |-> ScanIds(events, 0, EmptyMap, <<>>)]) # <<>>

\* a text that may not replace the outline on disk
Refused(f, text) ==
  \/ ~OutlineOk(text)
  \/ Conflicting(DiskEvents(f) \o OutlineEvents(text))

\* a relative path whose names, from the workspace root, are those of the
\* outline file
NormalNames(p) ==
  LET normal == SelectSeq(components(p), LAMBDA c : c.kind = "Normal")
  IN  [i \in 1..Len(normal) |-> normal[i].name]
TargetsOutline(p) ==
  ~Escaping(p) /\ NormalNames(p) = <<S_novel, S_cache, S_outline_file>>

OutlineNode(f) == IF OutlineLoc \in DOMAIN f THEN <<f[OutlineLoc]>> ELSE <<>>

C12_Step ==
  ncalls' # ncalls =>
    (Refused(fs, JGet(last_call'.args, "text").v) =>
       /\ OutlineNode(fs') = OutlineNode(fs)
       /\ TargetsOutline(JGet(last_call'.args, "path").v) => ~last_call'.ok)

\* C12: a write, through fs_write_text or write_text, of a text that does not
\* parse as an outline, or whose events after the events on disk hold a
\* duplicate-id or timeline conflict, leaves the outline file as it was and,
\* when its path names the outline file, fails; a file on disk that is blank
\* or unparsable holds no events.
C12_OutlineWritesChecked == [][C12_Step]_vars

(***************************************************************************)
(* SpecOutlineKept: the same writes, in workspaces whose outline file is   *)
(* absent or holds an outline without conflicts                            *)
(***************************************************************************)
InitOutlineKept ==
  /\ fs \in { BaseFs, WithNodes(BaseFs, CacheDirs),
              WithNodes(BaseFs, CacheDirs \cup
                {<<OutlineLoc, FileNode(OutlineText("json", <<EvA>>))>>}) }
  /\ ncalls = 0
  /\ last_call = NoCall
  /\ PathIdle /\ OutlineIdle /\ IndexIdle /\ ReactIdle /\ ParseIdle /\ RegistryIdle /\ RaceIdle /\ StreamIdle

SpecOutlineKept == InitOutlineKept /\ [][NextOutlineFile]_vars

\* C26: whatever fs_write_text and write_text calls were made, the outline
\* file, when there is one, passes validate_outline against an empty existing
\* outline: it parses and holds no duplicate id and no timeline conflict.
C26_OutlineFileValid ==
  IsFileAt(fs, OutlineLoc) => validate_outline(PlainText(<<>>), fs[OutlineLoc].data).ok

(***************************************************************************)
(* SpecConceptWrites: writes of files under concept/ through fs_write_text *)
(* and write_text, in a workspace that starts with an empty concept folder *)
(***************************************************************************)
ConceptLoc == Append(WorkspaceLoc, S_concept)

\* concept/a.md as the index spells it, with a leading "./", with a "." in
\* the middle; another concept file; a file outside concept/
ConceptPathInputs ==
  { S_concept_a_md,
    <<".", "/">> \o S_concept_a_md,
    S_concept \o <<"/", ".", "/">> \o S_a_md,
    S_concept_b_md,
    S_notes }
ConceptTextInputs == {PlainText(<<"x">>), PlainText(<<"y">>)}

InitConceptWrites ==
  /\ fs = WithNodes(BaseFs, {<<ConceptLoc, DirNode>>})
  /\ ncalls = 0
  /\ last_call = NoCall
  /\ PathIdle /\ OutlineIdle /\ IndexIdle /\ ReactIdle /\ ParseIdle /\ RegistryIdle /\ RaceIdle /\ StreamIdle

NextConceptWrites ==
  \/ \E p \in ConceptPathInputs, t \in ConceptTextInputs : ToolWritesOutline(p, t)
  \/ \E p \in ConceptPathInputs, t \in ConceptTextInputs : CommandWritesOutline(p, t)

SpecConceptWrites == InitConceptWrites /\ [][NextConceptWrites]_vars

\* the location an entry of the index names
EntryLoc(f, rel_path) == Resolve(f, Join(workspace_root, rel_path))
\* every entry holds the hash of the file it names
EntriesCurrent(f) ==
  \A p \in DOMAIN LoadIndex(f).index.files :
    /\ EntryLoc(f, p).st = "ok" /\ IsFileAt(f, EntryLoc(f, p).loc)
    /\ LoadIndex(f).index.files[p].hash = Hash(f[EntryLoc(f, p).loc].data)
\* every .md file under concept/ has an entry
ConceptFilesIndexed(f) ==
  \A loc \in DOMAIN f :
    (/\ IsFileAt(f, loc) /\ Len(loc) > Len(ConceptLoc)
     /\ SubSeq(loc, 1, Len(ConceptLoc)) = ConceptLoc
     /\ IsMd(loc[Len(loc)])) =>
      \E p \in DOMAIN LoadIndex(f).index.files :
        EntryLoc(f, p).st = "ok" /\ EntryLoc(f, p).loc = loc
IndexConsistent(f) == EntriesCurrent(f) /\ ConceptFilesIndexed(f)

C27_Step ==
  (ncalls' # ncalls /\ last_call'.ok /\ IndexConsistent(fs)) => IndexConsistent(fs')

\* C27: every successful fs_write_text or write_text call keeps the concept
\* index in step with the files: each entry holds the hash of the current
\* content of the file it names, and each .md file under concept/ has an
\* entry.  The workspace starts with an empty concept folder and no index.
C27_IndexInStep == [][C27_Step]_vars

(***************************************************************************)
(* SpecWriteErrors: fs_write_text calls that fail at each of its checks    *)
(* and steps                                                               *)
(***************************************************************************)
S_concept_sub == S_concept \o <<"/", "s", "u", "b", ".", "m", "d">>

\* no path; a blank path; a file without .md under concept/; paths outside
\* the workspace; the outline file; a missing parent folder; a folder as the
\* target; concept files
WriteErrorArgInputs ==
  {JObj(<<>>)} \cup
  {WriteArgs(p, t) :
     p \in { <<" ">>, <<"c", "o", "n", "c", "e", "p", "t", "/", "a", ".", "t", "x", "t">>,
             <<".", ".", "/", "a">>, <<"/", "a">>, S_outline_json,
             <<"d", "/", "a", ".", "m", "d">>, S_concept_sub, S_concept_a_md, S_notes },
     t \in {PlainText(<<"x">>), OutlineText("json", <<Ev(<<"b">>, T1, <<"Y">>, <<Bob>>)>>)}}

\* a workspace with concept/a.md, the folder concept/sub.md and an outline
\* file; the same with a folder at the path of the index file; the same with
\* a file at .novel
WriteErrorFs ==
  WithNodes(WorkFs, CacheDirs \cup
    { <<Append(ConceptLoc, <<"s", "u", "b", ".", "m", "d">>), DirNode>>,
      <<OutlineLoc, FileNode(OutlineText("json", <<EvA>>))>> })
WriteErrorInitFs ==
  { WriteErrorFs,
    WithNodes(WriteErrorFs, {<<IndexLoc, DirNode>>}),
    WithNodes(WorkFs, {<<NovelLoc, FileNode(PlainText(<<>>))>>}) }

InitWriteErrors ==
  /\ fs \in WriteErrorInitFs
  /\ ncalls = 0
  /\ last_call = NoCall
  /\ PathIdle /\ OutlineIdle /\ IndexIdle /\ ReactIdle /\ ParseIdle /\ RegistryIdle /\ RaceIdle /\ StreamIdle

NextWriteErrors ==
  \E args \in WriteErrorArgInputs, now \in 1..MaxNow : ToolCall(S_fs_write_text, args, now)

SpecWriteErrors == InitWriteErrors /\ [][NextWriteErrors]_vars

\* the node at the path the call names, joined to the workspace root
TargetNode(f, args) ==
  IF ~JHasStr(args, "path") THEN <<>>
  ELSE LET r == Resolve(f, Join(workspace_root, JGet(args, "path").v))
       IN  IF r.st = "ok" /\ r.loc \in DOMAIN f THEN <<f[r.loc]>> ELSE <<>>

C28_Step ==
  (ncalls' # ncalls /\ last_call'.tool = S_fs_write_text /\ ~last_call'.ok) =>
    TargetNode(fs', last_call'.args) = TargetNode(fs, last_call'.args)

\* C28: an fs_write_text call that returns an error leaves the file its path
\* names as it was, whichever check or step failed.
C28_ErrorKeepsTarget == [][C28_Step]_vars

(***************************************************************************)
(* SpecMemory: upserts and searches on one MemoryStore                     *)
(***************************************************************************)
MaxMemoryCalls == 3
MaxLimit == 3

MemoryItem(key, value) == [key |-> key, value |-> value]

\* keys that differ in case only, and a key with a space
MemoryKeyInputs == {<<"k">>, <<"K">>, <<"a", " ", "k">>}
MemoryValueInputs == {<<"v">>, <<"K", "v">>, <<>>}
MemoryQueryInputs == {<<>>, <<"k">>, <<"K">>, <<"k", "V">>, <<"z">>}

\* stores whose keys are distinct
MemoryInitStores ==
  { <<>>,
    <<MemoryItem(<<"k">>, <<"v">>)>>,
    <<MemoryItem(<<"K">>, <<"v">>), MemoryItem(<<"b">>, <<"k", "v">>),
      MemoryItem(<<"k">>, <<>>)>> }

InitMemory ==
  /\ memory \in MemoryInitStores
  /\ pc = "idle" /\ step = 0 /\ messages = <<>> /\ result = <<"none">>
  /\ model_calls = 0 /\ tool_runs = 0 /\ last_model = NoModel
  /\ PathIdle /\ OutlineIdle /\ FsIdle /\ IndexIdle /\ ParseIdle /\ RegistryIdle /\ RaceIdle /\ StreamIdle

\* MemoryStore::upsert(&mut self, key, value)
Upsert(key, value) ==
  /\ ncalls < MaxMemoryCalls
  /\ memory' = MemoryStore_upsert(memory, key, value)
  /\ last_call' = [NoCall EXCEPT !.run = TRUE, !.tool = S_memory_upsert, !.ok = TRUE,
                                 !.args = MemoryItem(key, value)]
  /\ ncalls' = ncalls + 1
  /\ UNCHANGED <<varsPath, varsOutline, varsIndex, fs, pc, step, messages, result,
                 model_calls, tool_runs, last_model, varsParse, varsRegistry, varsRace, varsStream>>

\* MemoryStore::search(&self, query, limit)
Search(query, limit) ==
  /\ ncalls < MaxMemoryCalls
  /\ last_call' = [NoCall EXCEPT !.run = TRUE, !.tool = S_memory_search, !.ok = TRUE,
                                 !.args = [query |-> query, limit |-> limit],
                                 !.val = MemoryStore_search(memory, query, limit)]
  /\ ncalls' = ncalls + 1
  /\ UNCHANGED <<varsPath, varsOutline, varsIndex, fs, varsReact, varsParse, varsRegistry, varsRace, varsStream>>

NextMemory ==
  \/ \E key \in MemoryKeyInputs, value \in MemoryValueInputs : Upsert(key, value)
  \/ \E query \in MemoryQueryInputs, limit \in 0..MaxLimit : Search(query, limit)

SpecMemory == InitMemory /\ [][NextMemory]_vars

DistinctKeys(data) ==
  \A i, j \in 1..Len(data) : data[i].key = data[j].key => i = j
HoldsKey(data, key) == \E i \in 1..Len(data) : data[i].key = key

C13_Step ==
  (ncalls' # ncalls /\ last_call'.tool = S_memory_upsert /\ DistinctKeys(memory)) =>
    LET key == last_call'.args.key
        value == last_call'.args.value
    IN  /\ DistinctKeys(memory')
        /\ HoldsKey(memory, key) =>
             /\ Len(memory') = Len(memory)
             /\ \A i \in 1..Len(memory) :
                  /\ memory'[i].key = memory[i].key
                  /\ memory'[i].value = IF memory[i].key = key THEN value ELSE memory[i].value
        /\ ~HoldsKey(memory, key) =>
             /\ Len(memory') = Len(memory) + 1
             /\ memory'[Len(memory')] = MemoryItem(key, value)
             /\ \A i \in 1..Len(memory) : memory'[i] = memory[i]

\* C13: on a store whose keys are distinct an upsert keeps them distinct (as
\* they are spelled); the upsert of a key the store holds replaces the value
\* of that item where it stands, the upsert of a new key appends the item,
\* and every other item stays as and where it was.
C13_UpsertKeepsKeys == [][C13_Step]_vars

C13_Witness ==
  /\ ncalls = 2 /\ last_call.tool = S_memory_upsert
  /\ last_call.args = MemoryItem(<<"K">>, <<"K", "v">>)
  /\ memory = <<MemoryItem(<<"K">>, <<"K", "v">>), MemoryItem(<<"b">>, <<"k", "v">>),
                MemoryItem(<<"k">>, <<>>), MemoryItem(<<"a", " ", "k">>, <<"v">>)>>

\* s holds q as a substring, letter case apart
ContainsAnyCase(s, q) ==
  \E i \in 0..(Len(s) - Len(q)) :
    \A k \in 1..Len(q) : LowerChar(s[i + k]) = LowerChar(q[k])

\* the positions of the items that match the query
Matches(data, query) ==
  {i \in 1..Len(data) :
     ContainsAnyCase(data[i].key, query) \/ ContainsAnyCase(data[i].value, query)}
NthMatch(data, query, n) ==
  CHOOSE i \in Matches(data, query) :
    Cardinality({j \in Matches(data, query) : j <= i}) = n

C14_Step ==
  (ncalls' # ncalls /\ last_call'.tool = S_memory_search) =>
    LET query == last_call'.args.query
        limit == last_call'.args.limit
        hits == last_call'.val
        count == Cardinality(Matches(memory, query))
    IN  /\ Len(hits) = (IF limit < count THEN limit ELSE count)
        /\ \A n \in 1..Len(hits) : hits[n] = memory[NthMatch(memory, query, n)]
        /\ memory' = memory

\* C14: search returns the first min(limit, number of matches) items, in
\* store order, of the items whose key or value holds the query as a
\* substring, letter case apart, and leaves the store as it was.
C14_SearchFirstMatches == [][C14_Step]_vars

C14_Witness ==
  /\ last_call.tool = S_memory_search
  /\ last_call.args = [query |-> <<"k", "V">>, limit |-> 1]
  /\ Len(memory) = 4
  /\ Cardinality(Matches(memory, <<"k", "V">>)) = 2
  /\ last_call.val = <<memory[2]>>

(***************************************************************************)
(* SpecParse: parse_tool_call on every text of a few lines                 *)
(***************************************************************************)
MaxLines == 3

\* marker lines in upper, lower and mixed case, indented, ended by a carriage
\* return, with a colon in the value, with JSON, with text that is no JSON;
\* lines that hold a marker but do not start with it; an empty line
LineInputs ==
  { <<"A", "C", "T", "I", "O", "N", ":", " ", "f", "s", "_", "r", "e", "a", "d", "_", "t", "e", "x", "t">>,
    <<" ", " ", "a", "c", "t", "i", "o", "n", ":", "a", ":", "b", " ", "\r">>,
    <<"I", "N", "P", "U", "T", ":", " ", "{", "}">>,
    <<" ", "I", "n", "p", "u", "t", ":", " ", "{", "\"", "p", "a", "t", "h", "\"", ":", "\"", ".", ".", "/", "a", "\"", "}", "\r">>,
    <<"I", "N", "P", "U", "T", ":", " ", "{", "o", "o", "p", "s">>,
    <<"A", "c", "t", "i", "o", "n", " ", ":", " ", "y">>,
    <<"x", " ", "I", "N", "P", "U", "T", ":", " ", "{", "}">>,
    <<>> }

\* the text whose lines are ls: a line feed stands between two lines
RECURSIVE JoinLines(_)
JoinLines(ls) ==
  IF ls = <<>> THEN <<>>
  ELSE IF Len(ls) = 1 THEN ls[1]
  ELSE ls[1] \o <<"\n">> \o JoinLines(Tail(ls))

InitParse ==
  /\ ParseIdle
  /\ PathIdle /\ OutlineIdle /\ FsIdle /\ IndexIdle /\ ReactIdle /\ RegistryIdle /\ RaceIdle /\ StreamIdle

\* the model's output grows by a line
AddLine(l) ==
  /\ ~parsed_call.run
  /\ Len(model_text) < MaxLines
  /\ model_text' = Append(model_text, l)
  /\ UNCHANGED <<parsed_call, varsPath, varsOutline, varsFs, varsIndex, varsReact, varsRegistry, varsRace, varsStream>>

\* parse_tool_call(text)
ParseToolCall ==
  /\ ~parsed_call.run
  /\ \E r \in {parse_tool_call(JoinLines(model_text))} :
       parsed_call' = [run |-> TRUE, some |-> r.some, tool |-> r.tool, args |-> r.args]
  /\ UNCHANGED <<model_text, varsPath, varsOutline, varsFs, varsIndex, varsReact, varsRegistry, varsRace, varsStream>>

NextParse ==
  \/ \E l \in LineInputs : AddLine(l)
  \/ ParseToolCall

SpecParse == InitParse /\ [][NextParse]_vars

\* the trimmed line starts with the marker, letter case apart
StartsWithMarker(l, marker) ==
  /\ Len(Trim(l)) >= Len(marker)
  /\ \A k \in 1..Len(marker) : UpperChar(Trim(l)[k]) = marker[k]
MarkerLines(marker) ==
  {i \in 1..Len(model_text) : StartsWithMarker(model_text[i], marker)}
LastMarkerLine(marker) ==
  CHOOSE i \in MarkerLines(marker) : \A j \in MarkerLines(marker) : j <= i
\* the trimmed text after the marker of the last line that starts with it
MarkerValue(marker) ==
  Trim(SubSeq(Trim(model_text[LastMarkerLine(marker)]), Len(marker) + 1,
              Len(Trim(model_text[LastMarkerLine(marker)]))))

\* C15: parse_tool_call returns None exactly when no line starts with ACTION:
\* or no line starts with INPUT: (trimmed, letter case apart); otherwise the
\* tool is the trimmed text after the colon of the last ACTION: line, the
\* input that of the last INPUT: line, and args is the input parsed as JSON,
\* or {"raw": input} when the input is no JSON.
C15_ParseToolCall ==
  parsed_call.run =>
    /\ ~parsed_call.some <=> (MarkerLines(S_ACTION) = {} \/ MarkerLines(S_INPUT) = {})
    /\ parsed_call.some =>
         /\ parsed_call.tool = MarkerValue(S_ACTION)
         /\ parsed_call.args =
              IF \E d \in JsonDocs : d[1] = MarkerValue(S_INPUT)
              THEN (CHOOSE d \in JsonDocs : d[1] = MarkerValue(S_INPUT))[2]
              ELSE JObj(<<<<"raw", JStr(MarkerValue(S_INPUT))>>>>)

C15_Witness ==
  /\ parsed_call.run /\ parsed_call.some
  /\ Len(model_text) = 3
  /\ MarkerLines(S_ACTION) = {1, 3} /\ MarkerLines(S_INPUT) = {2}
  /\ parsed_call.tool = <<"a", ":", "b">>
  /\ parsed_call.args = JObj(<<<<"raw", JStr(<<"{", "o", "o", "p", "s">>)>>>>)

(***************************************************************************)
(* SpecRegistry: registrations, listings and calls on one ToolRegistry     *)
(***************************************************************************)
MaxRegistrations == 3
MaxHandlers == 2

\* names that differ in case only, a name that is the start of another
ToolNameInputs == {<<"b">>, <<"a">>, <<"B">>, <<"a", "b">>}

InitRegistry ==
  /\ registry = ToolRegistry_new
  /\ registry_log = NoOperation
  /\ PathIdle /\ OutlineIdle /\ FsIdle /\ IndexIdle /\ ReactIdle /\ ParseIdle /\ RaceIdle /\ StreamIdle

\* register(name, handler)
Register(name, handler) ==
  /\ Len(registry_log.history) < MaxRegistrations
  /\ registry' = ToolRegistry_register(registry, name, handler)
  /\ registry_log' = [op |-> "register", name |-> name, handler |-> handler, out |-> <<>>,
                      history |-> Append(registry_log.history, <<name, handler>>)]
  /\ UNCHANGED <<varsPath, varsOutline, varsFs, varsIndex, varsReact, varsParse, varsRace, varsStream>>

\* list()
List ==
  /\ registry_log' = [registry_log EXCEPT !.op = "list", !.name = <<>>, !.handler = 0,
                                          !.out = ToolRegistry_list(registry)]
  /\ UNCHANGED <<registry, varsPath, varsOutline, varsFs, varsIndex, varsReact, varsParse, varsRace, varsStream>>

\* call(ctx, name, args)
Call(name) ==
  /\ registry_log' = [registry_log EXCEPT !.op = "call", !.name = name, !.handler = 0,
                                          !.out = ToolRegistry_call(registry, name)]
  /\ UNCHANGED <<registry, varsPath, varsOutline, varsFs, varsIndex, varsReact, varsParse, varsRace, varsStream>>

NextRegistry ==
  \/ \E name \in ToolNameInputs, handler \in 1..MaxHandlers : Register(name, handler)
  \/ List
  \/ \E name \in ToolNameInputs : Call(name)

SpecRegistry == InitRegistry /\ [][NextRegistry]_vars

\* the registrations made under a name, by their place in the history
RegistrationsOf(name) ==
  {i \in 1..Len(registry_log.history) : registry_log.history[i][1] = name}
LastRegistered(name) ==
  registry_log.history[CHOOSE i \in RegistrationsOf(name) :
                         \A j \in RegistrationsOf(name) : j <= i][2]

\* C16: list() is sorted (in the order of String, which is that of the
\* characters' codes), without a name twice, and holds exactly the names that
\* were registered; call(name) runs the handler registered last under the
\* name as it is spelled, and that one only; under a name that was never
\* registered it runs nothing and fails with "unknown tool: <name>".
C16_RegistryListAndCall ==
  /\ registry_log.op = "list" =>
       /\ \A i \in 1..(Len(registry_log.out) - 1) :
            StrLess(registry_log.out[i], registry_log.out[i + 1])
       /\ {registry_log.out[i] : i \in 1..Len(registry_log.out)}
            = {registry_log.history[i][1] : i \in 1..Len(registry_log.history)}
  /\ registry_log.op = "call" =>
       IF RegistrationsOf(registry_log.name) = {}
       THEN /\ ~registry_log.out.ok
            /\ registry_log.out.err = <<<<"unknown tool", registry_log.name>>>>
            /\ registry_log.out.ran = <<>>
       ELSE /\ registry_log.out.ok
            /\ registry_log.out.ran = <<LastRegistered(registry_log.name)>>

C16_Witness ==
  /\ registry_log.op = "call" /\ registry_log.name = <<"b">>
  /\ registry_log.history = <<<<<<"b">>, 1>>, <<<<"B">>, 1>>, <<<<"b">>, 2>>>>
  /\ registry_log.out.ran = <<2>>

(***************************************************************************)
(* SpecReact: one run of AgentRuntime::run_react                           *)
(***************************************************************************)
\* two blocks: a read outside the workspace, then the write of a.md
Out_write ==
  <<"A", "C", "T", "I", "O", "N", ":", " ", "f", "s", "_", "r", "e", "a", "d", "_", "t", "e", "x", "t", "\n", "I", "N", "P", "U", "T", ":", " ", "{", "\"", "p", "a", "t", "h", "\"", ":", "\"", ".", ".", "/", "a", "\"", "}", "\n", "A", "C", "T", "I", "O", "N", ":", " ", "f", "s", "_", "w", "r", "i", "t", "e", "_", "t", "e", "x", "t", "\n", "I", "N", "P", "U", "T", ":", " ", "{", "\"", "p", "a", "t", "h", "\"", ":", "\"", "a", ".", "m", "d", "\"", ",", "\"", "t", "e", "x", "t", "\"", ":", "\"", "x", "\"", "}">>
\* reads outside the workspace; mixed case, CRLF, indented
Out_escape ==
  <<"A", "c", "t", "i", "o", "n", ":", " ", "f", "s", "_", "r", "e", "a", "d", "_",
    "t", "e", "x", "t", "\r", "\n", " ", " ", "i", "n", "p", "u", "t", ":", " ", "{",
    "\"", "p", "a", "t", "h", "\"", ":", "\"", ".", ".", "/", "a", "\"", "}", "\n">>
\* stores a memory item
Out_upsert ==
  <<"A", "C", "T", "I", "O", "N", ":", " ", "m", "e", "m", "o", "r", "y", "_", "u",
    "p", "s", "e", "r", "t", "\n", "I", "N", "P", "U", "T", ":", " ", "{", "\"", "k",
    "e", "y", "\"", ":", "\"", "k", "\"", ",", "\"", "v", "a", "l", "u", "e", "\"",
    ":", "\"", "v", "\"", "}">>
\* memory_upsert with a blank key
Out_upsert_blank ==
  <<"A", "C", "T", "I", "O", "N", ":", " ", "m", "e", "m", "o", "r", "y", "_", "u",
    "p", "s", "e", "r", "t", "\n", "I", "N", "P", "U", "T", ":", " ", "{", "\"", "k",
    "e", "y", "\"", ":", "\"", " ", "\"", "}">>
\* memory_search without a limit
Out_search_all ==
  <<"A", "C", "T", "I", "O", "N", ":", " ", "m", "e", "m", "o", "r", "y", "_", "s", "e", "a", "r", "c", "h", "\n", "I", "N", "P", "U", "T", ":", " ", "{", "\"", "q", "u", "e", "r", "y", "\"", ":", "\"", "K", "\"", "}">>
\* memory_search without a query
Out_search_bare ==
  <<"A", "C", "T", "I", "O", "N", ":", " ", "m", "e", "m", "o", "r", "y", "_", "s",
    "e", "a", "r", "c", "h", "\n", "I", "N", "P", "U", "T", ":", " ", "{", "}">>
\* a final answer: an ACTION line and no INPUT line
Out_answer ==
  <<"A", "C", "T", "I", "O", "N", ":", " ", "n", "o", "n", "e", "\n", "d", "o", "n",
    "e">>

ModelOutputs ==
  {Out_write, Out_escape, Out_upsert, Out_upsert_blank, Out_search_all, Out_search_bare,
   Out_answer}
ModelErrors == {Msg("model unavailable")}

\* the conversation so far: a question, an earlier answer, a question
ReactBaseInputs ==
  { <<ChatMessage("user", <<"h", "i">>), ChatMessage("assistant", <<"o", "l", "d">>),
      ChatMessage("user", <<"g", "o">>)>> }
ReactPromptInputs == {<<" ", "s", "y", "s">>}

\* a workspace whose memory file holds one item
MemoryLoc == Append(CacheLoc, S_agent_memory)
MemoryFs ==
  WithNodes(BaseFs, CacheDirs \cup
    {<<MemoryLoc, FileNode(JsonText(MemoryJson(<<[key |-> <<"K", "a", "y">>, value |-> <<"v", "0">>]>>)))>>})

\* AgentRuntime::new: the memory is loaded from the workspace
InitReact ==
  /\ fs \in {BaseFs, MemoryFs}
  /\ ncalls = 0 /\ last_call = NoCall
  /\ pc = "idle" /\ step = 0 /\ messages = <<>> /\ result = <<"none">>
  /\ memory = MemoryStore_load(fs)
  /\ model_calls = 0 /\ tool_runs = 0 /\ last_model = NoModel
  /\ PathIdle /\ OutlineIdle /\ IndexIdle /\ ParseIdle /\ RegistryIdle /\ RaceIdle /\ StreamIdle

\* run_react up to the loop
RunReact(base_messages, agent_system_prompt) ==
  /\ pc = "idle"
  /\ messages' = <<SystemMessage(agent_system_prompt, memory)>> \o base_messages
  /\ step' = 0
  /\ pc' = "loop"
  /\ UNCHANGED <<result, memory, model_calls, tool_runs, last_model>>
  /\ UNCHANGED <<varsPath, varsOutline, varsFs, varsIndex, varsParse, varsRegistry, varsRace, varsStream>>

\* the loop with the budget spent
BudgetSpent ==
  /\ pc = "loop" /\ step >= max_steps
  /\ result' = <<"Ok", LastAssistant(messages), [steps |-> step]>>
  /\ pc' = "done"
  /\ UNCHANGED <<step, messages, memory, model_calls, tool_runs, last_model>>
  /\ UNCHANGED <<varsPath, varsOutline, varsFs, varsIndex, varsParse, varsRegistry, varsRace, varsStream>>

\* the mutant: the turn is counted and the loop goes on
ModelFailsRetried(e) ==
  /\ pc = "loop" /\ step < max_steps
  /\ step' = step + 1
  /\ model_calls' = model_calls + 1
  /\ last_model' = [run |-> TRUE, ok |-> FALSE, out |-> <<>>, err |-> e, history |-> messages]
  /\ UNCHANGED <<pc, result, messages, memory, tool_runs>>
  /\ UNCHANGED <<varsPath, varsOutline, varsFs, varsIndex, varsParse, varsRegistry, varsRace, varsStream>>

\* one turn: call_model returns Err(e)
ModelFails(e) ==
  /\ pc = "loop" /\ step < max_steps
  /\ step' = step + 1
  /\ model_calls' = model_calls + 1
  /\ last_model' = [run |-> TRUE, ok |-> FALSE, out |-> <<>>, err |-> e, history |-> messages]
  /\ result' = <<"Err", e>>
  /\ pc' = "done"
  /\ UNCHANGED <<messages, memory, tool_runs>>
  /\ UNCHANGED <<varsPath, varsOutline, varsFs, varsIndex, varsParse, varsRegistry, varsRace, varsStream>>

\* the mutant: the turn ends with the assistant message; the observation of
\* the tool call is not pushed
ModelRepliesUnobserved(out, now) ==
  /\ pc = "loop" /\ step < max_steps
  /\ parse_tool_call(out).tool # S_fs_write_text => now = 1
  /\ step' = step + 1
  /\ model_calls' = model_calls + 1
  /\ last_model' = [run |-> TRUE, ok |-> TRUE, out |-> out, err |-> <<>>,
                   history |-> messages]
  /\ \E parsed \in {parse_tool_call(out)} :
     \E turn \in {RunTool(fs, memory, parsed, now)} :
     \E called \in {[run |-> TRUE, tool |-> parsed.tool, args |-> parsed.args,
                     ok |-> turn.ok, val |-> turn.val, err |-> turn.err,
                     ops |-> turn.ops, registry_calls |-> turn.registry_calls,
                     store_call |-> turn.store_call]} :
       IF ~parsed.some
       THEN /\ result' = <<"Ok", out, [steps |-> step + 1]>>
            /\ pc' = "done"
            /\ UNCHANGED <<messages, memory, tool_runs, fs, last_call>>
       ELSE IF turn.returns
       THEN /\ result' = <<"Err", turn.err>>
            /\ pc' = "done"
            /\ last_call' = called
            /\ UNCHANGED <<messages, memory, tool_runs, fs>>
       ELSE /\ messages' = messages \o <<ChatMessage("assistant", out)>>
            /\ fs' = turn.fs
            /\ memory' = turn.memory
            /\ tool_runs' = tool_runs + 1
            /\ last_call' = called
            /\ UNCHANGED <<pc, result>>
  /\ UNCHANGED <<ncalls, varsPath, varsOutline, varsIndex, varsParse, varsRegistry, varsRace, varsStream>>

\* one turn: call_model returns Ok(out); now is the clock, which only
\* fs_write_text reads
ModelReplies(out, now) ==
  /\ pc = "loop" /\ step < max_steps
  /\ parse_tool_call(out).tool # S_fs_write_text => now = 1
  /\ step' = step + 1
  /\ model_calls' = model_calls + 1
  /\ last_model' = [run |-> TRUE, ok |-> TRUE, out |-> out, err |-> <<>>,
                   history |-> messages]
  /\ \E parsed \in {parse_tool_call(out)} :
     \E turn \in {RunTool(fs, memory, parsed, now)} :
     \E called \in {[run |-> TRUE, tool |-> parsed.tool, args |-> parsed.args,
                     ok |-> turn.ok, val |-> turn.val, err |-> turn.err,
                     ops |-> turn.ops, registry_calls |-> turn.registry_calls,
                     store_call |-> turn.store_call]} :
       IF ~parsed.some
       THEN /\ result' = <<"Ok", out, [steps |-> step + 1]>>
            /\ pc' = "done"
            /\ UNCHANGED <<messages, memory, tool_runs, fs, last_call>>
       ELSE IF turn.returns
       THEN /\ result' = <<"Err", turn.err>>
            /\ pc' = "done"
            /\ last_call' = called
            /\ UNCHANGED <<messages, memory, tool_runs, fs>>
       ELSE /\ messages' = messages \o <<ChatMessage("assistant", out), Observation(turn)>>
            /\ fs' = turn.fs
            /\ memory' = turn.memory
            /\ tool_runs' = tool_runs + 1
            /\ last_call' = called
            /\ UNCHANGED <<pc, result>>
  /\ UNCHANGED <<ncalls, varsPath, varsOutline, varsIndex, varsParse, varsRegistry, varsRace, varsStream>>

NextReact ==
  \/ \E base_messages \in ReactBaseInputs, agent_system_prompt \in ReactPromptInputs :
       RunReact(base_messages, agent_system_prompt)
  \/ \E out \in ModelOutputs, now \in 1..MaxNow : ModelReplies(out, now)
  \/ \E e \in ModelErrors : ModelFails(e)
  \/ BudgetSpent

SpecReact == InitReact /\ [][NextReact]_vars

ModelFailed == last_model.run /\ ~last_model.ok

\* C1: a run makes at most 6 model invocations; a run that has returned and
\* whose model outputs all parsed as tool calls made exactly 6 and returned
\* Ok with the 6th output.
C1_StepBudget ==
  /\ model_calls <= 6
  /\ (pc = "done" /\ last_model.ok /\ parse_tool_call(last_model.out).some)
       => /\ model_calls = 6
          /\ result[1] = "Ok" /\ result[2] = last_model.out

\* C2: run_react returns an error only when a model invocation failed; after
\* a tool call that failed the run has returned no error and the last
\* message is the observation {"error": message}.
C2_ToolFailuresObserved ==
  /\ result[1] = "Err" => ModelFailed
  /\ (last_model.ok /\ parse_tool_call(last_model.out).some /\ ~last_call.ok)
       => /\ result[1] # "Err"
          /\ messages[Len(messages)] =
               ChatMessage("user", <<"OBSERVATION:", JObj(<<<<"error", JStr(last_call.err)>>>>)>>)

\* C3: the turn in which a model invocation fails returns that error and
\* nothing else, runs no tool and changes neither the messages, the memory
\* nor the file system; after it nothing of the run changes.
C3_Step ==
  /\ (model_calls' # model_calls /\ ~last_model'.ok)
       => /\ result' = <<"Err", last_model'.err>>
          /\ pc' = "done"
          /\ UNCHANGED <<tool_runs, messages, memory, fs, last_call>>
  /\ ModelFailed => UNCHANGED <<model_calls, tool_runs, result, messages, memory, fs>>

\* C3: every step keeps the abort on a model failure (C3_Step, above).
C3_ModelFailureAborts == [][C3_Step]_vars

C3_Witness ==
  /\ ModelFailed
  /\ tool_runs = 3 /\ model_calls = 4
  /\ result = <<"Err", Msg("model unavailable")>>
  /\ IsFileAt(fs, Append(WorkspaceLoc, S_a_md))

C17_Step ==
  (model_calls' # model_calls /\ last_model'.ok /\ parse_tool_call(last_model'.out).some) =>
    /\ last_call'.tool \in {S_memory_upsert, S_memory_search} =>
         /\ last_call'.registry_calls = 0
         /\ last_call'.ok => last_call'.store_call # <<>>
    /\ last_call'.tool \notin {S_memory_upsert, S_memory_search} =>
         /\ last_call'.registry_calls = 1
         /\ last_call'.store_call = <<>>
         /\ memory' = memory
    /\ (/\ last_call'.tool = S_memory_search
        /\ JHasStr(last_call'.args, "query") /\ ~JHas(last_call'.args, "limit"))
         => /\ last_call'.store_call = <<"search", 10>>
            /\ last_call'.val =
                 JArr([i \in 1..Len(MemoryStore_search(memory, JGet(last_call'.args, "query").v, 10))
                         |-> MemoryItemJson(MemoryStore_search(memory,
                                              JGet(last_call'.args, "query").v, 10)[i])])

\* C17: a parsed call named memory_upsert or memory_search is served by the
\* runtime's MemoryStore and ToolRegistry::call is not called; a call of any
\* other name is passed to ToolRegistry::call once, no MemoryStore method is
\* called and the store is as it was; memory_search without a limit searches
\* with the limit 10.
C17_MemoryCallsIntercepted == [][C17_Step]_vars

C17_Witness ==
  /\ tool_runs = 3
  /\ last_call.tool = S_memory_search /\ ~JHas(last_call.args, "limit")
  /\ last_call.store_call = <<"search", 10>>
  /\ last_call.registry_calls = 0
  /\ Len(memory) = 2 /\ Len(last_call.val.v) = 2

IsPrefix(a, b) == Len(a) <= Len(b) /\ SubSeq(b, 1, Len(a)) = a

C18_Step ==
  /\ pc = "loop" => IsPrefix(messages, messages')
  /\ model_calls' # model_calls =>
       /\ last_model'.history = messages
       /\ model_calls = 0 =>
            /\ messages[1].role = "system"
            /\ Tail(messages) \in ReactBaseInputs
       /\ model_calls > 0 =>
            /\ IsPrefix(last_model.history, messages)
            /\ Len(messages) = Len(last_model.history) + 2
            /\ messages[Len(messages) - 1] = ChatMessage("assistant", last_model.out)
            /\ messages[Len(messages)] =
                 ChatMessage("user",
                   <<"OBSERVATION:",
                     IF last_call.ok THEN last_call.val
                     ELSE JObj(<<<<"error", JStr(last_call.err)>>>>)>>)

\* C18: within a run the messages only grow at the end; the first model
\* invocation is given the system message followed by the caller's messages,
\* and every later one the history of the invocation before it followed by
\* two messages: the assistant message with that invocation's output as it
\* was, then the user message with the observation of its tool call.
C18_HistoryAppendOnly == [][C18_Step]_vars

C18_Witness ==
  /\ model_calls = 3 /\ tool_runs = 2 /\ last_model.ok
  /\ Len(last_model.history) = 8
  /\ last_model.history[7] = ChatMessage("assistant", Out_escape)
  /\ last_model.history[8].role = "user"
  /\ ~last_call.ok

\* the observations a history holds
Observations(msgs) ==
  {i \in 1..Len(msgs) : msgs[i].role = "user" /\ msgs[i].content[1] = "OBSERVATION:"}

C19_Step ==
  /\ tool_runs' \in {tool_runs, tool_runs + 1}
  /\ model_calls' # model_calls =>
       /\ tool_runs = model_calls
       /\ Cardinality(Observations(messages)) = tool_runs
       /\ tool_runs > 0 => Len(messages) \in Observations(messages)
       /\ tool_runs' = tool_runs + 1 =>
            /\ last_call'.tool = parse_tool_call(last_model'.out).tool
            /\ \A op \in last_call'.ops : op[1] = "read" => last_call'.tool = S_fs_read_text

\* C19: a model turn runs at most one tool call, also when the output holds
\* two ACTION/INPUT blocks, and runs it within the turn: when a model
\* invocation is made, every output before it was a tool call that has been
\* run, and the history given ends with its observation and holds one
\* observation per call.
C19_ToolsRunToCompletion == [][C19_Step]_vars

C19_Witness ==
  /\ model_calls = 2 /\ tool_runs = 1 /\ pc = "done" /\ ~last_model.ok
  /\ last_model.history[Len(last_model.history) - 1] = ChatMessage("assistant", Out_write)
  /\ last_call.tool = S_fs_write_text /\ last_call.ok
  /\ \A op \in last_call.ops : op[1] # "read"
  /\ IsFileAt(fs, Append(WorkspaceLoc, S_a_md))

(***************************************************************************)
(* SpecReactMemory: runs of run_react whose model calls memory_upsert, in  *)
(* workspaces where the memory file can and cannot be written              *)
(***************************************************************************)
\* memory_upsert without a key
Out_upsert_nokey ==
  <<"A", "C", "T", "I", "O", "N", ":", " ", "m", "e", "m", "o", "r", "y", "_", "u", "p", "s", "e", "r", "t", "\n", "I", "N", "P", "U", "T", ":", " ", "{", "}">>
\* memory_upsert without a value
Out_upsert_novalue ==
  <<"A", "C", "T", "I", "O", "N", ":", " ", "m", "e", "m", "o", "r", "y", "_", "u", "p", "s", "e", "r", "t", "\n", "I", "N", "P", "U", "T", ":", " ", "{", "\"", "k", "e", "y", "\"", ":", "\"", "k", "\"", "}">>

MemoryOutputs ==
  {Out_upsert, Out_upsert_blank, Out_upsert_nokey, Out_upsert_novalue, Out_answer}

\* a workspace where .novel is a file: the folder of the memory file cannot
\* be made
UnwritableFs == WithNodes(BaseFs, {<<NovelLoc, FileNode(PlainText(<<>>))>>})

InitReactMemory ==
  /\ fs \in {BaseFs, MemoryFs, UnwritableFs}
  /\ ncalls = 0 /\ last_call = NoCall
  /\ pc = "idle" /\ step = 0 /\ messages = <<>> /\ result = <<"none">>
  /\ memory = MemoryStore_load(fs)
  /\ model_calls = 0 /\ tool_runs = 0 /\ last_model = NoModel
  /\ PathIdle /\ OutlineIdle /\ IndexIdle /\ ParseIdle /\ RegistryIdle /\ RaceIdle /\ StreamIdle

NextReactMemory ==
  \/ \E base_messages \in ReactBaseInputs, agent_system_prompt \in ReactPromptInputs :
       RunReact(base_messages, agent_system_prompt)
  \/ \E out \in MemoryOutputs, now \in 1..MaxNow : ModelReplies(out, now)
  \/ \E e \in ModelErrors : ModelFails(e)
  \/ BudgetSpent

SpecReactMemory == InitReactMemory /\ [][NextReactMemory]_vars

\* the items of the memory file on disk
Persisted(f) == MemoryStore_load(f)
HoldsItem(data, key, value) ==
  \E i \in 1..Len(data) : data[i].key = key /\ data[i].value = value

C20_Step ==
  (/\ model_calls' # model_calls /\ last_model'.ok
   /\ parse_tool_call(last_model'.out).some
   /\ last_call'.tool = S_memory_upsert) =>
    /\ (/\ JHasStr(last_call'.args, "key") /\ ~IsBlank(JGet(last_call'.args, "key").v)
        /\ JHasStr(last_call'.args, "value")
        /\ last_call'.ok /\ last_call'.val = JObj(<<<<"ok", JBool(TRUE)>>>>))
         => HoldsItem(Persisted(fs'), JGet(last_call'.args, "key").v,
                      JGet(last_call'.args, "value").v)
    /\ (\/ ~JHasStr(last_call'.args, "key")
        \/ IsBlank(JGet(last_call'.args, "key").v)
        \/ ~JHasStr(last_call'.args, "value"))
         => /\ memory' = memory
            /\ fs' = fs

\* C20: after a memory_upsert with a non-blank key and a value whose
\* observation is {"ok": true}, the memory file on disk holds the item when
\* the next model invocation is made; a memory_upsert without a key, with a
\* blank key or without a value leaves the store and the file as they were.
C20_UpsertPersisted == [][C20_Step]_vars

(***************************************************************************)
(* SpecMemoryFile: one MemoryStore, upserted, saved to and loaded from     *)
(* workspaces whose memory file is absent, well formed or unparsable       *)
(***************************************************************************)
\* texts that serde_json::from_str::<MemoryStoreData> refuses: an empty file,
\* no JSON, no long_term field, a long_term that is no list, an item without
\* a value
UnparsableMemoryTexts ==
  { PlainText(<<>>), PlainText(<<"x">>), JsonText(JObj(<<>>)),
    JsonText(JObj(<<<<"long_term", JStr(<<"k">>)>>>>)),
    JsonText(JObj(<<<<"long_term", JArr(<<JObj(<<<<"key", JStr(<<"k">>)>>>>)>>)>>>>)) }

MemoryFileInitFs ==
  {BaseFs, MemoryFs, UnwritableFs, WithNodes(BaseFs, CacheDirs \cup {<<MemoryLoc, DirNode>>})}
    \cup {WithNodes(BaseFs, CacheDirs \cup {<<MemoryLoc, FileNode(t)>>}) :
            t \in UnparsableMemoryTexts}

\* a MemoryStore is made by MemoryStore::load only
InitMemoryFile ==
  /\ fs \in MemoryFileInitFs
  /\ memory = MemoryStore_load(fs)
  /\ ncalls = 0 /\ last_call = NoCall
  /\ pc = "idle" /\ step = 0 /\ messages = <<>> /\ result = <<"none">>
  /\ model_calls = 0 /\ tool_runs = 0 /\ last_model = NoModel
  /\ PathIdle /\ OutlineIdle /\ IndexIdle /\ ParseIdle /\ RegistryIdle /\ RaceIdle /\ StreamIdle

\* MemoryStore::save(&self); store_call: the methods called since the last
\* upsert
SaveStore ==
  /\ ncalls < MaxMemoryCalls
  /\ \E r \in {MemoryStore_save(fs, memory)} :
       /\ fs' = r.fs
       /\ last_call' = [NoCall EXCEPT !.run = TRUE, !.tool = <<"save">>, !.ok = r.ok,
                                      !.err = r.err, !.ops = r.ops,
                                      !.store_call = Append(last_call.store_call, "save")]
  /\ ncalls' = ncalls + 1
  /\ UNCHANGED <<varsPath, varsOutline, varsIndex, varsReact, varsParse, varsRegistry, varsRace, varsStream>>

\* MemoryStore::load(workspace_root)
LoadStore ==
  /\ ncalls < MaxMemoryCalls
  /\ memory' = MemoryStore_load(fs)
  /\ last_call' = [NoCall EXCEPT !.run = TRUE, !.tool = <<"load">>, !.ok = TRUE,
                                 !.store_call = Append(last_call.store_call, "load")]
  /\ ncalls' = ncalls + 1
  /\ UNCHANGED <<varsPath, varsOutline, varsIndex, fs, pc, step, messages, result,
                 model_calls, tool_runs, last_model, varsParse, varsRegistry, varsRace, varsStream>>

NextMemoryFile ==
  \/ \E key \in MemoryKeyInputs, value \in MemoryValueInputs : Upsert(key, value)
  \/ SaveStore
  \/ LoadStore

SpecMemoryFile == InitMemoryFile /\ [][NextMemoryFile]_vars

\* the memory file is a file that holds a JSON object whose long_term is a
\* list of objects with a string key and a string value
WellFormedItem(j) ==
  /\ j.t = "obj"
  /\ \E i \in 1..Len(j.v) : j.v[i][1] = "key" /\ j.v[i][2].t = "str"
  /\ \E i \in 1..Len(j.v) : j.v[i][1] = "value" /\ j.v[i][2].t = "str"
WellFormedMemoryFile(f) ==
  /\ IsFileAt(f, MemoryLoc)
  /\ f[MemoryLoc].data[1] = "json"
  /\ f[MemoryLoc].data[2].t = "obj"
  /\ \E i \in 1..Len(f[MemoryLoc].data[2].v) :
       /\ f[MemoryLoc].data[2].v[i][1] = "long_term"
       /\ f[MemoryLoc].data[2].v[i][2].t = "arr"
       /\ \A n \in 1..Len(f[MemoryLoc].data[2].v[i][2].v) :
            WellFormedItem(f[MemoryLoc].data[2].v[i][2].v[n])

C21_Step ==
  /\ (ncalls' # ncalls /\ last_call'.tool = <<"save">> /\ last_call'.ok) =>
       /\ memory' = memory
       /\ MemoryStore_load(fs') = memory
  /\ (ncalls' # ncalls /\ last_call'.tool = <<"load">>) =>
       /\ last_call'.ok
       /\ fs' = fs
       /\ (last_call.tool = <<"save">> /\ last_call.ok) => memory' = memory
       /\ ~WellFormedMemoryFile(fs) => memory' = <<>>

\* C21: a store saved with success and then loaded from the same workspace
\* holds the same items in the same order; a load from a workspace whose
\* memory file is absent or unparsable gives the empty store, never an error.
C21_SaveLoadRoundTrip == [][C21_Step]_vars

\* a store of two items was saved and loaded back; and a load of an
\* unparsable file gave the empty store
C21_Witness ==
  /\ last_call.store_call = <<"save", "load">>
  /\ memory = <<MemoryItem(<<"K", "a", "y">>, <<"v", "0">>), MemoryItem(<<"k">>, <<>>)>>
  /\ WellFormedMemoryFile(fs)

(***************************************************************************)
(* SpecMemoryRace: two AgentRuntime instances on one workspace, each with  *)
(* the MemoryStore it loaded when it was made                              *)
(***************************************************************************)
Runtimes == {1, 2}

\* at: "none", "running" or "finished"; data: the runtime's store; acked:
\* the keys whose memory_upsert was observed as {"ok": true}
NoRuntime == [at |-> "none", data |-> <<>>, acked |-> {}]

InitMemoryRace ==
  /\ fs \in {BaseFs, MemoryFs}
  /\ ncalls = 0 /\ last_call = NoCall
  /\ runtimes = [r \in Runtimes |-> NoRuntime] /\ writers = <<>>
  /\ PathIdle /\ OutlineIdle /\ IndexIdle /\ ReactIdle /\ ParseIdle /\ RegistryIdle /\ StreamIdle

\* AgentRuntime::new(workspace_root)
NewRuntime(r) ==
  /\ runtimes[r].at = "none"
  /\ runtimes' = [runtimes EXCEPT ![r] =
                    [at |-> "running", data |-> MemoryStore_load(fs), acked |-> {}]]
  /\ UNCHANGED <<fs, ncalls, last_call, writers, varsPath, varsOutline, varsIndex, varsReact,
                 varsParse, varsRegistry, varsStream>>

\* one memory_upsert turn of the runtime's run_react
UpsertsMemory(r, key, value) ==
  /\ ncalls < MaxMemoryCalls
  /\ runtimes[r].at = "running"
  /\ \E turn \in {UpsertTurn(fs, runtimes[r].data,
                             JObj(<<<<"key", JStr(key)>>, <<"value", JStr(value)>>>>))} :
       /\ fs' = turn.fs
       /\ runtimes' = [runtimes EXCEPT
            ![r].data = turn.memory,
            ![r].acked = IF turn.ok /\ turn.val = JObj(<<<<"ok", JBool(TRUE)>>>>)
                         THEN runtimes[r].acked \cup {key} ELSE runtimes[r].acked]
  /\ ncalls' = ncalls + 1
  /\ UNCHANGED <<last_call, writers, varsPath, varsOutline, varsIndex, varsReact,
                 varsParse, varsRegistry, varsStream>>

\* the run returns
RunFinishes(r) ==
  /\ runtimes[r].at = "running"
  /\ runtimes' = [runtimes EXCEPT ![r].at = "finished"]
  /\ UNCHANGED <<fs, ncalls, last_call, writers, varsPath, varsOutline, varsIndex, varsReact,
                 varsParse, varsRegistry, varsStream>>

NextMemoryRace ==
  \/ \E r \in Runtimes : NewRuntime(r)
  \/ \E r \in Runtimes, key \in MemoryKeyInputs \cup {<<" ">>}, value \in {<<"v">>, <<"w">>} :
       UpsertsMemory(r, key, value)
  \/ \E r \in Runtimes : RunFinishes(r)

SpecMemoryRace == InitMemoryRace /\ [][NextMemoryRace]_vars

\* C29: once both runs have finished, the memory file holds every key whose
\* memory_upsert was observed as {"ok": true} in either run.
C29_RaceKeepsKeys ==
  (\A r \in Runtimes : runtimes[r].at = "finished") =>
    \A r \in Runtimes : \A key \in runtimes[r].acked : HoldsKey(Persisted(fs), key)

(***************************************************************************)
(* commands.rs: chat_generate_stream.  An event is its name, the streamId  *)
(* of its payload and, for a token, the token; for an error, the stage.    *)
(***************************************************************************)
Event(name, stream_id, payload) ==
  [name |-> name, stream_id |-> stream_id, payload |-> payload]

\* str::trim_start_matches(|c| c == ' ' || c == '\t')
RECURSIVE TrimStartMatches(_)
TrimStartMatches(line) ==
  IF line # <<>> /\ line[1] \in {" ", "\t"} THEN TrimStartMatches(Tail(line)) ELSE line

\* out.join("\n")
RECURSIVE JoinNewline(_)
JoinNewline(out) ==
  IF out = <<>> THEN <<>>
  ELSE IF Len(out) = 1 THEN out[1]
  ELSE out[1] \o <<"\n">> \o JoinNewline(Tail(out))

\* normalize_plaintext
TrimmedLines(ls) == [i \in 1..Len(ls) |-> TrimStartMatches(ls[i])]
normalize_plaintext(s) ==
  Trim(JoinNewline(SelectSeq(TrimmedLines(lines(s)), LAMBDA l : l # <<>>)))

step_chars == 48

\* the mutant: a token is emitted once it holds more than step_chars
RECURSIVE TokenLoop_over(_, _)
TokenLoop_over(rest, buf) ==
  IF rest = <<>> THEN [sleeps |-> FALSE, buf |-> buf, rest |-> <<>>]
  ELSE IF Len(buf) + 1 > step_chars
  THEN [sleeps |-> TRUE, buf |-> Append(buf, Head(rest)), rest |-> Tail(rest)]
  ELSE TokenLoop_over(Tail(rest), Append(buf, Head(rest)))

\* for ch in response.chars(): the loop up to its next sleep, or to its end;
\* count is the length of buf
RECURSIVE TokenLoop(_, _)
TokenLoop(rest, buf) ==
  IF rest = <<>> THEN [sleeps |-> FALSE, buf |-> buf, rest |-> <<>>]
  ELSE IF Len(buf) + 1 >= step_chars
  THEN [sleeps |-> TRUE, buf |-> Append(buf, Head(rest)), rest |-> Tail(rest)]
  ELSE TokenLoop(Tail(rest), Append(buf, Head(rest)))

\* the events of the loop up to the sleep, or of the loop's end and the
\* lines after it
Streamed(id, looped) ==
  IF looped.sleeps
  THEN [at |-> "sleeping", rest |-> looped.rest,
        events |-> <<Event("ai_stream_token", id, looped.buf)>>]
  ELSE [at |-> "ended", rest |-> <<>>,
        events |-> (IF looped.buf # <<>>
                    THEN <<Event("ai_stream_token", id, looped.buf)>> ELSE <<>>)
                   \o <<Event("ai_stream_done", id, <<>>)>>]

\* the stage of the ai_error of a failed run
ErrorStage(e) ==
  IF \/ Contains(e, <<"a", "p", "i", " ", "k", "e", "y">>)
     \/ Contains(e, <<"k", "e", "y", "r", "i", "n", "g">>)
     \/ Contains(e, <<"r", "e", "q", "u", "e", "s", "t", " ", "f", "a", "i", "l", "e", "d">>)
     \/ Contains(e, <<"d", "e", "c", "o", "d", "e", " ", "f", "a", "i", "l", "e", "d">>)
     \/ Contains(e, <<"h", "t", "t", "p", " ">>)
  THEN "provider" ELSE "agent"

(***************************************************************************)
(* SpecStream: chat_generate_stream requests, two stream ids, the tasks    *)
(* running side by side; a step of a task runs from one await to the next  *)
(***************************************************************************)
StreamIds == {"s1", "s2"}

Rep(c, n) == [i \in 1..n |-> c]

\* what run_react returns: an error of the provider, an error of the agent,
\* or a response: empty, short, of one token, of one token and a character,
\* of two tokens, with blank lines and indentation, and of two indented lines
AgentResults ==
  { <<"Err", <<"h", "t", "t", "p", " ", "5", "0", "0">>>>,
    <<"Err", <<"m", "i", "s", "s", "i", "n", "g", " ", "a", "r", "g", "s", ".", "q", "u", "e", "r", "y">>>>,
    <<"Ok", <<>>>>,
    <<"Ok", <<"h", "i">>>>,
    <<"Ok", Rep("a", 48)>>,
    <<"Ok", Rep("a", 49)>>,
    <<"Ok", Rep("a", 96)>>,
    <<"Ok", <<" ", "a", "\n", "\n", "\t", "b", " ", "\n">>>>,
    <<"Ok", <<" ">> \o Rep("a", 48) \o <<"\n", "\t">> \o Rep("b", 48)>> }

\* at: "none", "refused", "spawned", "running", "sleeping" or "ended"
NoTask ==
  [at |-> "none", use_markdown |-> FALSE, settings_loaded |-> FALSE,
   provider_found |-> FALSE, result |-> <<"none">>, rest |-> <<>>]

InitStream ==
  /\ emitted = <<>>
  /\ stream = [id \in StreamIds |-> NoTask]
  /\ PathIdle /\ OutlineIdle /\ FsIdle /\ IndexIdle /\ ReactIdle /\ ParseIdle /\ RegistryIdle /\ RaceIdle

\* commands.rs:554-566: the workspace root is taken and the task is spawned
ChatGenerateStream(stream_id, workspace_set, use_markdown) ==
  /\ stream[stream_id].at = "none"
  /\ ~workspace_set => ~use_markdown
  /\ stream' = [stream EXCEPT ![stream_id] =
                  [NoTask EXCEPT !.at = IF workspace_set THEN "spawned" ELSE "refused",
                                 !.use_markdown = use_markdown]]
  /\ UNCHANGED <<emitted, varsPath, varsOutline, varsFs, varsIndex, varsReact, varsParse,
                 varsRegistry, varsRace>>

\* commands.rs:567-616: the task up to the await of run_react
TaskStarts(stream_id, settings_loaded, output_use_markdown, provider_found) ==
  /\ stream[stream_id].at = "spawned"
  /\ ~settings_loaded => (~output_use_markdown /\ provider_found)
  /\ ~provider_found => ~output_use_markdown
  /\ emitted' = emitted \o <<Event("ai_stream_start", stream_id, <<>>)>> \o
       (IF settings_loaded /\ provider_found THEN <<>>
        ELSE <<Event("ai_error", stream_id, <<"settings">>),
               Event("ai_stream_done", stream_id, <<>>)>>)
  /\ stream' = [stream EXCEPT
       ![stream_id].at = IF settings_loaded /\ provider_found THEN "running" ELSE "ended",
       ![stream_id].settings_loaded = settings_loaded,
       ![stream_id].provider_found = provider_found,
       ![stream_id].use_markdown = stream[stream_id].use_markdown \/ output_use_markdown]
  /\ UNCHANGED <<varsPath, varsOutline, varsFs, varsIndex, varsReact, varsParse,
                 varsRegistry, varsRace>>

\* commands.rs:617-731: run_react has returned; an error ends the task, a
\* response goes to the token loop, up to its first sleep
AgentReturns(stream_id, res, change_set) ==
  /\ stream[stream_id].at = "running"
  /\ res[1] = "Err" => ~change_set
  /\ IF res[1] = "Err"
     THEN /\ emitted' = emitted \o <<Event("ai_error", stream_id, <<ErrorStage(res[2])>>),
                                     Event("ai_stream_done", stream_id, <<>>)>>
          /\ stream' = [stream EXCEPT ![stream_id].at = "ended", ![stream_id].result = res]
     ELSE \E st \in {Streamed(stream_id,
                       TokenLoop(IF stream[stream_id].use_markdown THEN res[2]
                                 ELSE normalize_plaintext(res[2]), <<>>))} :
            /\ emitted' = emitted \o <<Event("ai_perf", stream_id, <<>>)>> \o
                 (IF change_set THEN <<Event("ai_change_set", stream_id, <<>>)>> ELSE <<>>)
                 \o st.events
            /\ stream' = [stream EXCEPT ![stream_id].at = st.at, ![stream_id].rest = st.rest,
                                        ![stream_id].result = res]
  /\ UNCHANGED <<varsPath, varsOutline, varsFs, varsIndex, varsReact, varsParse,
                 varsRegistry, varsRace>>

\* commands.rs:723-741: the sleep is over; the loop goes on to its next sleep
\* or to ai_stream_done
SleepEnds(stream_id) ==
  /\ stream[stream_id].at = "sleeping"
  /\ \E st \in {Streamed(stream_id, TokenLoop(stream[stream_id].rest, <<>>))} :
       /\ emitted' = emitted \o st.events
       /\ stream' = [stream EXCEPT ![stream_id].at = st.at, ![stream_id].rest = st.rest]
  /\ UNCHANGED <<varsPath, varsOutline, varsFs, varsIndex, varsReact, varsParse,
                 varsRegistry, varsRace>>

NextStream ==
  \/ \E id \in StreamIds, workspace_set \in BOOLEAN, use_markdown \in BOOLEAN :
       ChatGenerateStream(id, workspace_set, use_markdown)
  \/ \E id \in StreamIds, settings_loaded \in BOOLEAN, output_use_markdown \in BOOLEAN,
        provider_found \in BOOLEAN :
       TaskStarts(id, settings_loaded, output_use_markdown, provider_found)
  \/ \E id \in StreamIds, res \in AgentResults, change_set \in BOOLEAN :
       AgentReturns(id, res, change_set)
  \/ \E id \in StreamIds : SleepEnds(id)

SpecStream == InitStream /\ [][NextStream]_vars

\* the events of a stream id, in the order they were emitted
EventsOf(id) == SelectSeq(emitted, LAMBDA e : e.stream_id = id)
Named(evs, name) == SelectSeq(evs, LAMBDA e : e.name = name)
RECURSIVE Concatenated(_)
Concatenated(tokens) ==
  IF tokens = <<>> THEN <<>> ELSE tokens[1].payload \o Concatenated(Tail(tokens))

\* settings loading, provider lookup or the agent run failed
Failed(task) ==
  \/ ~task.settings_loaded \/ ~task.provider_found \/ task.result[1] = "Err"
\* the response after normalize_plaintext, when plain text is in effect
FinalResponse(task) ==
  IF task.use_markdown THEN task.result[2] ELSE normalize_plaintext(task.result[2])

StreamShape(id) ==
  LET evs == EventsOf(id)
      task == stream[id]
  IN  IF task.at \in {"none", "refused", "spawned"} THEN evs = <<>>
      ELSE /\ evs[1].name = "ai_stream_start"
           /\ Len(Named(evs, "ai_stream_start")) = 1
           /\ Len(Named(evs, "ai_stream_done")) = (IF task.at = "ended" THEN 1 ELSE 0)
           /\ task.at = "ended" => evs[Len(evs)].name = "ai_stream_done"
           /\ \A i \in 1..Len(evs) :
                evs[i].name = "ai_stream_token" =>
                  Len(evs[i].payload) \in 1..step_chars
           /\ (task.at = "ended" /\ Failed(task)) =>
                /\ [i \in 1..Len(evs) |-> evs[i].name] =
                     <<"ai_stream_start", "ai_error", "ai_stream_done">>
           /\ (task.at = "ended" /\ ~Failed(task)) =>
                /\ Named(evs, "ai_error") = <<>>
                /\ Concatenated(Named(evs, "ai_stream_token")) = FinalResponse(task)

\* C30: for every request whose workspace is set, the events of its stream
\* id begin with one ai_stream_start; when the task has ended they end with
\* the one ai_stream_done; after a failure of the settings, the provider
\* lookup or the agent run they are ai_stream_start, one ai_error,
\* ai_stream_done, with no token; after a success the tokens, in order,
\* concatenate to the final response (normalised when plain text is in
\* effect); no token holds more than 48 characters.
C30_StreamEvents == \A id \in StreamIds : StreamShape(id)

\* one stream ended after three tokens of a normalised response while the
\* other failed
C30_Witness ==
  /\ stream["s1"].at = "ended" /\ ~Failed(stream["s1"]) /\ ~stream["s1"].use_markdown
  /\ Len(Named(EventsOf("s1"), "ai_stream_token")) = 3
  /\ Len(FinalResponse(stream["s1"])) = 97
  /\ stream["s2"].at = "ended" /\ Failed(stream["s2"])
  /\ emitted[Len(emitted)].stream_id = "s1"
  /\ emitted[1].stream_id = "s2"
====
